---- MODULE Spec2Model ----
(***************************************************************************)
(* A model of the sched daemon (reusee/sched): the schedule grammar parser *)
(* Job.parsePlan, the four repeat projectors, Job.Parse, and the scanning  *)
(* loop main/checkJobs with Job.Run and the run log.                       *)
(*                                                                         *)
(* Time.  A Go time.Time is modelled as a record [day, sec, frac]: the     *)
(* day number counted from 1970-01-01 (proleptic Gregorian calendar, as in *)
(* package time), the second of that day, and frac = 1 when the instant    *)
(* lies strictly inside that second (frac = 0: exactly on the second).     *)
(* Every value built by time.Date has frac = 0; only a clock reading       *)
(* (time.Now) can have frac = 1.  time.Local is a fixed offset (no         *)
(* daylight-saving transitions).  Durations are whole seconds.  Go's ==     *)
(* on time.Time compares the representation, not the instant: a reading of *)
(* time.Now carries a monotonic clock reading on Go 1.9 and later, and is  *)
(* then never == to a value built by time.Date.  The field mono records    *)
(* that, and == is modelled by equality of the records.                    *)
(*                                                                         *)
(* Text.  A token is a sequence of one-character strings, a line is a      *)
(* sequence of tokens (the result of strings.Split(line, " ")), a file is  *)
(* a sequence of lines.                                                    *)
(***************************************************************************)
EXTENDS Integers, Sequences, FiniteSets, TLC

VARIABLES
    \* one call of Job.parsePlan (SpecPlan)
    given,      \* what the schedule line was written from
    schedLine,  \* the schedule line: the tokens of strings.Split(input, " ")
    jobLog,     \* Job.Log: the instants of the run log
    clock,      \* the values the calls of time.Now() return, in order
    result,     \* what parsePlan returned
    ppc,        \* "input" before the call, "done" after it
    \* the day search loops of nextWeekRepeat and nextMonthRepeat (SpecSearch)
    skind,      \* "week" or "month"
    sanchor,    \* dayOfWeek, or day
    sT,         \* the loop variable t
    steps,      \* iterations of the loop so far
    spc,        \* "loop" (the loop before the NOW test), "found", "loop2"
                \* (the loop after t.Add(24h)), "done"
    \* one call of Job.Parse (SpecParse)
    jobFile,    \* the lines of the job file
    runLog,     \* the lines of its run-log file
    parseClock, \* the values the calls of time.Now() return
    parsedJob,  \* the Job after Parse, with the error Parse returned
    jpc,        \* "input" before the call, "done" after it
    \* the daemon: main, checkJobs, Job.Run (Spec)
    jobDir,     \* the job files of the job directory, in the order of filepath.Walk
    logFiles,   \* the run-log file of each job: its lines
    wall,       \* the clock
    pc,         \* "scan": about to call checkJobs; "wait": in the select of
                \* checkJobs; "idle": in the select of main; "hung"
    nextJob,    \* checkJobs' nextJob: [path, Cmd], path = 0 for nil
    nextPlan,   \* checkJobs' nextPlan
    launches,   \* history: the calls of Job.Run, [job, at, logged, started]
    env         \* the environment: the grid its events arrive on, and its end

planVars == <<given, schedLine, jobLog, clock, result, ppc>>

searchVars == <<skind, sanchor, sT, steps, spc>>

parseVars == <<jobFile, runLog, parseClock, parsedJob, jpc>>

daemonVars == <<jobDir, logFiles, wall, pc, nextJob, nextPlan, launches, env>>

vars == <<given, schedLine, jobLog, clock, result, ppc, skind, sanchor, sT, steps, spc,
          jobFile, runLog, parseClock, parsedJob, jpc,
          jobDir, logFiles, wall, pc, nextJob, nextPlan, launches, env>>

(***************************************************************************)
(* Package time: calendar arithmetic.                                      *)
(***************************************************************************)
SecondsPerMinute == 60

SecondsPerHour == 3600

SecondsPerDay == 86400

Hour1 == SecondsPerHour

Hour24 == 24 * SecondsPerHour

Hour24x7 == 24 * 7 * SecondsPerHour

Hour24x30 == 24 * 30 * SecondsPerHour

\* Day number of year-month-1 for a month in 1..12 (days since 1970-01-01).
DaysFromCivil(y, m) ==
    LET yy  == IF m <= 2 THEN y - 1 ELSE y
        era == yy \div 400
        yoe == yy - era * 400
        mp  == IF m > 2 THEN m - 3 ELSE m + 9
        doy == (153 * mp + 2) \div 5
        doe == yoe * 365 + yoe \div 4 - yoe \div 100 + doy
    IN  era * 146097 + doe - 719468

\* [year, month, day] of a day number.
CivilFromDays(z) ==
    LET Civil(era, yoe, doy, mp) ==
            [year  |-> yoe + era * 400 + (IF mp < 10 THEN 0 ELSE 1),
             month |-> IF mp < 10 THEN mp + 3 ELSE mp - 9,
             day   |-> doy - (153 * mp + 2) \div 5 + 1]
        FromDoy(era, yoe, doy) == Civil(era, yoe, doy, (5 * doy + 2) \div 153)
        FromYoe(era, doe, yoe) ==
            FromDoy(era, yoe, doe - (365 * yoe + yoe \div 4 - yoe \div 100))
        FromDoe(era, doe) ==
            FromYoe(era, doe,
                    (doe - doe \div 1460 + doe \div 36524 - doe \div 146096) \div 365)
        FromEra(zz, era) == FromDoe(era, zz - era * 146097)
    IN  FromEra(z + 719468, (z + 719468) \div 146097)

\* time.Local: a zone in which the clocks go forward by one hour at 02:00
\* on 2024-03-31. A time is held by the fields of its local wall clock;
\* the local times 02:00:00 .. 02:59:59 of that day do not exist.
SpringDay == DaysFromCivil(2024, 3) + 30

GapStart == 2 * SecondsPerHour

ZoneShift == SecondsPerHour

\* The reading is at or after second-of-day bound of the day of the change.
AtOrAfter(day, sec, bound) == day > SpringDay \/ (day = SpringDay /\ sec >= bound)

\* Seconds carried into days.
Carry(day, secs) == [day |-> day + secs \div SecondsPerDay, sec |-> secs % SecondsPerDay]

\* The wall clock of the zone at an instant given by the wall clock of the
\* zone's offset before the change, and back.
FromStd(a) ==
    IF AtOrAfter(a.day, a.sec, GapStart) THEN Carry(a.day, a.sec + ZoneShift) ELSE a

ToStd(t) ==
    IF AtOrAfter(t.day, t.sec, GapStart + ZoneShift) THEN Carry(t.day, t.sec - ZoneShift)
    ELSE [day |-> t.day, sec |-> t.sec]

\* time.Date(year, month, day, hour, min, sec, 0, time.Local): out-of-range
\* values are normalised by carrying into the next larger unit; a wall
\* clock reading that the zone skips is taken with the offset before the
\* change, which gives the reading one hour later.
TimeDate(year, month, day, hour, min, sec) ==
    LET m0   == month - 1
        y1   == year + m0 \div 12
        m1   == (m0 % 12) + 1
        secs == hour * SecondsPerHour + min * SecondsPerMinute + sec
        Made(l) == [day |-> l.day, sec |-> l.sec, frac |-> 0, mono |-> FALSE]
        InZone(l) ==
            Made(IF l.day = SpringDay /\ l.sec >= GapStart /\ l.sec < GapStart + ZoneShift
                 THEN Carry(l.day, l.sec + ZoneShift)
                 ELSE l)
    IN  InZone(Carry(DaysFromCivil(y1, m1) + (day - 1), secs))

\* Time.Date() and Time.Clock() accessors.
Year(t) == CivilFromDays(t.day).year

Month(t) == CivilFromDays(t.day).month

Day(t) == CivilFromDays(t.day).day

Hour(t) == t.sec \div SecondsPerHour

Minute(t) == (t.sec % SecondsPerHour) \div SecondsPerMinute

Second(t) == t.sec % SecondsPerMinute

\* Time.Weekday(): 0 = Sunday .. 6 = Saturday; 1970-01-01 was a Thursday.
Weekday(t) == (t.day + 4) % 7

\* Time.Add(d) for a duration of d whole seconds: d seconds of elapsed
\* time later, which is not the same wall clock reading d seconds on when
\* the change of the zone's offset lies in between.
Add(t, d) ==
    LET Made(l) == [day |-> l.day, sec |-> l.sec, frac |-> t.frac, mono |-> t.mono]
        Moved(a) == Made(FromStd(Carry(a.day, a.sec + d)))
    IN  Moved(ToStd(t))

\* Time.Before / Time.After: comparison of instants.
Before(a, b) ==
    \/ a.day < b.day
    \/ a.day = b.day /\ a.sec < b.sec
    \/ a.day = b.day /\ a.sec = b.sec /\ a.frac < b.frac

After(a, b) == Before(b, a)

(***************************************************************************)
(* Text: characters, tokens, fmt.Sscanf("%d...") and the regular           *)
(* expressions of parsePlan.                                               *)
(***************************************************************************)
Digits == <<"0", "1", "2", "3", "4", "5", "6", "7", "8", "9">>

UpperCase == <<"A", "B", "C", "D", "E", "F", "G", "H", "I", "J", "K", "L", "M",
               "N", "O", "P", "Q", "R", "S", "T", "U", "V", "W", "X", "Y", "Z">>

LowerCase == <<"a", "b", "c", "d", "e", "f", "g", "h", "i", "j", "k", "l", "m",
               "n", "o", "p", "q", "r", "s", "t", "u", "v", "w", "x", "y", "z">>

IsDigit(c) == \E i \in 1..10 : Digits[i] = c

DigitVal(c) == (CHOOSE i \in 1..10 : Digits[i] = c) - 1

\* unicode.ToLower on one character (strings.ToLower, and the (?i) flag).
ToLower(c) ==
    IF \E i \in 1..26 : UpperCase[i] = c
    THEN LowerCase[CHOOSE i \in 1..26 : UpperCase[i] = c]
    ELSE c

\* [a-z] under the (?i) flag.
IsLetter(c) == \E i \in 1..26 : LowerCase[i] = ToLower(c)

\* s[i..j] are all digits / all letters (true of an empty range).
AllDigits(s, i, j) == \A k \in i..j : IsDigit(s[k])

AllLetters(s, i, j) == \A k \in i..j : IsLetter(s[k])

\* The literal word w (lower case) occurs in s at position i, ignoring case.
WordAt(s, i, w) ==
    /\ i >= 1
    /\ i + Len(w) - 1 <= Len(s)
    /\ \A k \in 1..Len(w) : ToLower(s[i + k - 1]) = w[k]

\* strings.HasPrefix(strings.ToLower(s), w)
HasPrefixFold(s, w) == WordAt(s, 1, w)

\* strings.HasPrefix(s, w), strings.Count(s, c), strings.Contains(s, c)
HasPrefix(s, w) == Len(w) <= Len(s) /\ \A k \in 1..Len(w) : s[k] = w[k]

Count(s, c) == Cardinality({k \in 1..Len(s) : s[k] = c})

\* End (exclusive) of the longest run of digits of s starting at i.
RECURSIVE DigitsEnd(_, _)
DigitsEnd(s, i) == IF i <= Len(s) /\ IsDigit(s[i]) THEN DigitsEnd(s, i + 1) ELSE i

\* Decimal value of the digits s[i..j-1].
RECURSIVE NumVal(_, _, _)
NumVal(s, i, j) == IF j <= i THEN 0 ELSE NumVal(s, i, j - 1) * 10 + DigitVal(s[j - 1])

\* The decimal digits of n >= 0: the verb %d of fmt.Sprintf.
RECURSIVE FmtNat(_)
FmtNat(n) == IF n < 10 THEN <<Digits[n + 1]>> ELSE FmtNat(n \div 10) \o <<Digits[(n % 10) + 1]>>

\* Position of the first character of s at or after i that is not a space.
RECURSIVE SkipSpace(_, _)
SkipSpace(s, i) == IF i <= Len(s) /\ s[i] = " " THEN SkipSpace(s, i + 1) ELSE i

\* One %d of fmt.Sscanf at position i: leading spaces are skipped, then an
\* optional sign, then at least one digit.  [ok, val, next].
ScanInt(s, i) ==
    LET Number(neg, b, e) ==
            IF e = b
            THEN [ok |-> FALSE, val |-> 0, next |-> b]
            ELSE [ok |-> TRUE,
                  val |-> (IF neg THEN 0 - NumVal(s, b, e) ELSE NumVal(s, b, e)),
                  next |-> e]
        Signed(neg, b) == Number(neg, b, DigitsEnd(s, b))
        Verb(b0) ==
            IF b0 <= Len(s) /\ s[b0] \in {"-", "+"}
            THEN Signed(s[b0] = "-", b0 + 1)
            ELSE Signed(FALSE, b0)
    IN  Verb(SkipSpace(s, i))

\* fmt.Sscanf(s, "%d<seps[1]>%d...%d", ...): the values scanned (n =
\* Len(vals)) and whether err is nil.  A space of the format matches any
\* run of spaces of the input, any other character matches itself.  Input
\* left over after the last verb is not an error.
RECURSIVE ScanFrom(_, _, _, _)
ScanFrom(s, i, seps, vals) ==
    LET Scanned(r) ==
            IF ~r.ok THEN [vals |-> vals, ok |-> FALSE]
            ELSE IF Len(vals) = Len(seps) THEN [vals |-> Append(vals, r.val), ok |-> TRUE]
            ELSE IF seps[Len(vals) + 1] = " "
                 THEN ScanFrom(s, SkipSpace(s, r.next), seps, Append(vals, r.val))
            ELSE IF r.next <= Len(s) /\ s[r.next] = seps[Len(vals) + 1]
                 THEN ScanFrom(s, r.next + 1, seps, Append(vals, r.val))
            ELSE [vals |-> Append(vals, r.val), ok |-> FALSE]
    IN  Scanned(ScanInt(s, i))

Sscanf(s, seps) == ScanFrom(s, 1, seps, <<>>)

\* ^([0-9]{2})?[0-9]{2}-[0-9]{1,2}-[0-9]{1,2}|[0-9]{1,2}-[0-9]{1,2}$
\* The alternation binds weaker than the anchors: the first alternative is
\* anchored at the start only, the second at the end only.
datePattern(s) ==
    \/ \E a \in {2, 4}, b \in 1..2, c \in 1..2 :
          /\ a + 1 + b + 1 + c <= Len(s)
          /\ AllDigits(s, 1, a)
          /\ s[a + 1] = "-"
          /\ AllDigits(s, a + 2, a + 1 + b)
          /\ s[a + 2 + b] = "-"
          /\ AllDigits(s, a + 3 + b, a + 2 + b + c)
    \/ \E b \in 1..2, c \in 1..2 :
          /\ b + 1 + c <= Len(s)
          /\ AllDigits(s, Len(s) - c + 1, Len(s))
          /\ s[Len(s) - c] = "-"
          /\ AllDigits(s, Len(s) - c - b, Len(s) - c - 1)

\* ^[0-9]{1,2}:[0-9]{1,2}(:[0-9]{1,2})?$
timePattern(s) ==
    \E a \in 1..2, b \in 1..2 :
       /\ a + 1 + b <= Len(s)
       /\ AllDigits(s, 1, a)
       /\ s[a + 1] = ":"
       /\ AllDigits(s, a + 2, a + 1 + b)
       /\ \/ Len(s) = a + 1 + b
          \/ \E c \in 1..2 :
                /\ Len(s) = a + 1 + b + 1 + c
                /\ s[a + 2 + b] = ":"
                /\ AllDigits(s, a + 3 + b, Len(s))

\* ^[0-9]{1,2}(:[0-9]{1,2})?$
minuteSecondPattern(s) ==
    \E a \in 1..2 :
       /\ a <= Len(s)
       /\ AllDigits(s, 1, a)
       /\ \/ Len(s) = a
          \/ \E b \in 1..2 :
                /\ Len(s) = a + 1 + b
                /\ s[a + 1] = ":"
                /\ AllDigits(s, a + 2, Len(s))

\* (?i)^sun[a-z]*|mon[a-z]*|tue[a-z]*|wed[a-z]*|thu[a-z]*|fri[a-z]*|sat[a-z]*$
\* Only "sun" is anchored at the start and only "sat" at the end; the five
\* middle alternatives match anywhere in the token.
dayOfWeekPattern(s) ==
    \/ WordAt(s, 1, <<"s", "u", "n">>)
    \/ \E i \in 1..Len(s) :
          \/ WordAt(s, i, <<"m", "o", "n">>)
          \/ WordAt(s, i, <<"t", "u", "e">>)
          \/ WordAt(s, i, <<"w", "e", "d">>)
          \/ WordAt(s, i, <<"t", "h", "u">>)
          \/ WordAt(s, i, <<"f", "r", "i">>)
    \/ \E i \in 1..Len(s) :
          /\ WordAt(s, i, <<"s", "a", "t">>)
          /\ AllLetters(s, i + 3, Len(s))

\* (?i)^[0-9]{1,2}(st|nd|rd|th)$
dayOfMonthPattern(s) ==
    \E a \in 1..2 :
       /\ Len(s) = a + 2
       /\ AllDigits(s, 1, a)
       /\ \/ WordAt(s, a + 1, <<"s", "t">>)
          \/ WordAt(s, a + 1, <<"n", "d">>)
          \/ WordAt(s, a + 1, <<"r", "d">>)
          \/ WordAt(s, a + 1, <<"t", "h">>)

\* (?i)^~[0-9]+(h[a-z]*|m[a-z]*|s[a-z]*)$
durationPattern(s) ==
    /\ Len(s) >= 3
    /\ s[1] = "~"
    /\ LET e == DigitsEnd(s, 2)
       IN  /\ e > 2
           /\ e <= Len(s)
           /\ ToLower(s[e]) \in {"h", "m", "s"}
           /\ AllLetters(s, e + 1, Len(s))

(***************************************************************************)
(* The token parsers.  Each takes the parser's variables st (year, month,  *)
(* day, hour, minute, second, dayOfWeek, duration, the is...Repeat flags   *)
(* and err, "" for nil) and gives them back as the Go function leaves      *)
(* them.                                                                   *)
(***************************************************************************)
\* parseDate with the year taken as written: no 2000 added to a year below
\* 1000.
parseDate_noCentury(spec, st, now) ==
    LET FullDateAsWritten(r) ==
            IF Len(r.vals) # 3 \/ ~r.ok
            THEN [st EXCEPT !.err = "parse date"]
            ELSE [st EXCEPT !.year = r.vals[1], !.month = r.vals[2], !.day = r.vals[3]]
    IN  IF Count(spec, "-") = 2 THEN FullDateAsWritten(Sscanf(spec, <<"-", "-">>))
        ELSE IF Count(spec, "-") = 1 THEN [st EXCEPT !.err = "parse date"]
        ELSE st

parseDate(spec, st, now) ==
    LET FullDate(r) ==
            IF Len(r.vals) # 3 \/ ~r.ok
            THEN [st EXCEPT !.err = "parse date"]
            ELSE [st EXCEPT !.year = IF r.vals[1] < 1000 THEN r.vals[1] + 2000
                                     ELSE r.vals[1],
                            !.month = r.vals[2],
                            !.day = r.vals[3]]
        MonthDay(r) ==
            IF Len(r.vals) # 3 \/ ~r.ok
            THEN [st EXCEPT !.err = "parse date"]
            ELSE [st EXCEPT !.year = Year(now), !.month = r.vals[1], !.day = r.vals[2]]
        Dashes(dashCount) ==
            IF dashCount = 2 THEN FullDate(Sscanf(spec, <<"-", "-">>))
            ELSE IF dashCount = 1 THEN MonthDay(Sscanf(spec, <<"-">>))
            ELSE st
    IN  Dashes(Count(spec, "-"))

parseTime(spec, st) ==
    LET ClockHMS(r) ==
            IF Len(r.vals) # 3 \/ ~r.ok
            THEN [st EXCEPT !.err = "parse time"]
            ELSE [st EXCEPT !.hour = r.vals[1], !.minute = r.vals[2],
                            !.second = r.vals[3]]
        ClockHM(r) ==
            IF Len(r.vals) # 2 \/ ~r.ok
            THEN [st EXCEPT !.err = "parse time"]
            ELSE [st EXCEPT !.hour = r.vals[1], !.minute = r.vals[2]]
        Colons(semiCount) ==
            IF semiCount = 2 THEN ClockHMS(Sscanf(spec, <<":", ":">>))
            ELSE IF semiCount = 1 THEN ClockHM(Sscanf(spec, <<":">>))
            ELSE st
    IN  Colons(Count(spec, ":"))

parseMinuteSecond(spec, st) ==
    LET MinSec(r) ==
            IF Len(r.vals) # 2 \/ ~r.ok
            THEN [st EXCEPT !.err = "parse minute:second"]
            ELSE [st EXCEPT !.minute = r.vals[1], !.second = r.vals[2]]
        MinOnly(r) ==
            IF Len(r.vals) # 1 \/ ~r.ok
            THEN [st EXCEPT !.err = "parse minute"]
            ELSE [st EXCEPT !.minute = r.vals[1]]
    IN  IF Count(spec, ":") > 0
        THEN MinSec(Sscanf(spec, <<":">>))
        ELSE MinOnly(Sscanf(spec, <<>>))

parseDayOfWeek(spec, st) ==
    IF HasPrefixFold(spec, <<"s", "u", "n">>) THEN [st EXCEPT !.dayOfWeek = 0]
    ELSE IF HasPrefixFold(spec, <<"m", "o", "n">>) THEN [st EXCEPT !.dayOfWeek = 1]
    ELSE IF HasPrefixFold(spec, <<"t", "u", "e">>) THEN [st EXCEPT !.dayOfWeek = 2]
    ELSE IF HasPrefixFold(spec, <<"w", "e", "d">>) THEN [st EXCEPT !.dayOfWeek = 3]
    ELSE IF HasPrefixFold(spec, <<"t", "h", "u">>) THEN [st EXCEPT !.dayOfWeek = 4]
    ELSE IF HasPrefixFold(spec, <<"f", "r", "i">>) THEN [st EXCEPT !.dayOfWeek = 5]
    ELSE IF HasPrefixFold(spec, <<"s", "a", "t">>) THEN [st EXCEPT !.dayOfWeek = 6]
    ELSE [st EXCEPT !.err = "parse day of week"]

\* regexp `[0-9]+` FindString: the leftmost run of digits; strconv.Atoi.
parseDayOfMonth(spec, st) ==
    IF \A k \in 1..Len(spec) : ~IsDigit(spec[k])
    THEN [st EXCEPT !.err = "parse day of month"]
    ELSE LET b == CHOOSE k \in 1..Len(spec) :
                     IsDigit(spec[k]) /\ \A j \in 1..(k - 1) : ~IsDigit(spec[j])
         IN  [st EXCEPT !.day = NumVal(spec, b, DigitsEnd(spec, b))]

\* groups of (?i)^~([0-9]+)([a-z]+)$; the unit is the first letter of the
\* second group.
parseDuration(spec, st) ==
    LET e == DigitsEnd(spec, 2)
        n == NumVal(spec, 2, e)
        u == ToLower(spec[e])
    IN  IF u = "h" THEN [st EXCEPT !.duration = SecondsPerHour * n]
        ELSE IF u = "m" THEN [st EXCEPT !.duration = SecondsPerMinute * n]
        ELSE IF u = "s" THEN [st EXCEPT !.duration = n]
        ELSE st

(***************************************************************************)
(* Plans, the run log and the repeat projectors.  clk is the sequence of   *)
(* the values that the successive calls of time.Now() return, in the order *)
(* of the calls.                                                           *)
(***************************************************************************)
EXPIRED == 0

NOW == 1

WAIT == 2

\* SearchFuel day-steps decide the search for a day of month: any day
\* number that occurs at all occurs within two consecutive months.
SearchFuel == 62

\* hasLog without the two equality tests: an entry on a bound of the window
\* does not count.
hasLog_openInterval(log, start, end) ==
    \E i \in 1..Len(log) : After(log[i], start) /\ Before(log[i], end)

hasLog(log, start, end) ==
    \E i \in 1..Len(log) :
       \/ After(log[i], start) /\ Before(log[i], end)
       \/ log[i] = start
       \/ log[i] = end

between(t, start, end) ==
    \/ After(t, start) /\ Before(t, end)
    \/ t = start
    \/ t = end

\* nextHourRepeat with the states of the non-repeating branch: EXPIRED once
\* the window of the current hour has passed.
nextHourRepeat_expires(log, duration, minute, second, clk) ==
    LET HourWindow(t, tEnd) ==
            IF between(clk[3], t, tEnd) /\ ~hasLog(log, t, tEnd)
            THEN [hang |-> FALSE, time |-> t, state |-> NOW]
            ELSE IF After(clk[4], tEnd)
            THEN [hang |-> FALSE, time |-> t, state |-> EXPIRED]
            ELSE [hang |-> FALSE, time |-> t, state |-> WAIT]
        HourAt(t, dur) == HourWindow(t, Add(t, dur))
    IN  HourAt(TimeDate(Year(clk[1]), Month(clk[1]), Day(clk[1]), Hour(clk[2]),
                        minute, second),
               IF duration > Hour1 THEN Hour1 ELSE duration)

nextHourRepeat(log, duration, minute, second, clk) ==
    LET HourWindow(t, tEnd) ==
            IF between(clk[3], t, tEnd) /\ ~hasLog(log, t, tEnd)
            THEN [hang |-> FALSE, time |-> t, state |-> NOW]
            ELSE IF After(clk[4], t)
            THEN [hang |-> FALSE, time |-> Add(t, Hour1), state |-> WAIT]
            ELSE [hang |-> FALSE, time |-> t, state |-> WAIT]
        HourAt(t, dur) == HourWindow(t, Add(t, dur))
    IN  HourAt(TimeDate(Year(clk[1]), Month(clk[1]), Day(clk[1]), Hour(clk[2]),
                        minute, second),
               IF duration > Hour1 THEN Hour1 ELSE duration)

\* nextDayRepeat without the clamp of the duration to 24 hours.
nextDayRepeat_noClamp(log, duration, hour, minute, second, clk) ==
    LET DayWindow(t, tEnd) ==
            IF between(clk[2], t, tEnd) /\ ~hasLog(log, t, tEnd)
            THEN [hang |-> FALSE, time |-> t, state |-> NOW]
            ELSE IF After(clk[3], t)
            THEN [hang |-> FALSE, time |-> Add(t, Hour24), state |-> WAIT]
            ELSE [hang |-> FALSE, time |-> t, state |-> WAIT]
        DayAt(t, dur) == DayWindow(t, Add(t, dur))
    IN  DayAt(TimeDate(Year(clk[1]), Month(clk[1]), Day(clk[1]), hour, minute, second),
              duration)

nextDayRepeat(log, duration, hour, minute, second, clk) ==
    LET DayWindow(t, tEnd) ==
            IF between(clk[2], t, tEnd) /\ ~hasLog(log, t, tEnd)
            THEN [hang |-> FALSE, time |-> t, state |-> NOW]
            ELSE IF After(clk[3], t)
            THEN [hang |-> FALSE, time |-> Add(t, Hour24), state |-> WAIT]
            ELSE [hang |-> FALSE, time |-> t, state |-> WAIT]
        DayAt(t, dur) == DayWindow(t, Add(t, dur))
    IN  DayAt(TimeDate(Year(clk[1]), Month(clk[1]), Day(clk[1]), hour, minute, second),
              IF duration > Hour24 THEN Hour24 ELSE duration)

\* for t.Weekday() != dayOfWeek { t = t.Add(time.Hour * 24) }
RECURSIVE SearchWeekday(_, _)
SearchWeekday(t, dayOfWeek) ==
    IF Weekday(t) # dayOfWeek THEN SearchWeekday(Add(t, Hour24), dayOfWeek) ELSE t

nextWeekRepeat(log, duration, dayOfWeek, hour, minute, second, clk) ==
    LET WeekWindow(t, tEnd) ==
            IF between(clk[2], t, tEnd) /\ ~hasLog(log, t, tEnd)
            THEN [hang |-> FALSE, time |-> t, state |-> NOW]
            ELSE IF After(clk[3], t)
            THEN [hang |-> FALSE, time |-> SearchWeekday(Add(t, Hour24), dayOfWeek),
                  state |-> WAIT]
            ELSE [hang |-> FALSE, time |-> t, state |-> WAIT]
        WeekAt(t, dur) == WeekWindow(t, Add(t, dur))
    IN  WeekAt(SearchWeekday(TimeDate(Year(clk[1]), Month(clk[1]), Day(clk[1]),
                                      hour, minute, second), dayOfWeek),
               IF duration > Hour24x7 THEN Hour24x7 ELSE duration)

\* for t.Day() != day { t = t.Add(time.Hour * 24) }: n counts the steps
\* taken; found is FALSE when the loop is still running after SearchFuel
\* steps, and then it never ends.
RECURSIVE SearchDay(_, _, _)
SearchDay(t, day, n) ==
    IF Day(t) = day THEN [found |-> TRUE, t |-> t, steps |-> n]
    ELSE IF n >= SearchFuel THEN [found |-> FALSE, t |-> t, steps |-> n]
    ELSE SearchDay(Add(t, Hour24), day, n + 1)

nextMonthRepeat(log, duration, day, hour, minute, second, clk) ==
    LET MonthLater(s2) == [hang |-> ~s2.found, time |-> s2.t, state |-> WAIT]
        MonthWindow(t, tEnd) ==
            IF between(clk[2], t, tEnd) /\ ~hasLog(log, t, tEnd)
            THEN [hang |-> FALSE, time |-> t, state |-> NOW]
            ELSE IF After(clk[3], t)
            THEN MonthLater(SearchDay(Add(t, Hour24), day, 0))
            ELSE [hang |-> FALSE, time |-> t, state |-> WAIT]
        MonthAt(s1, dur) ==
            IF ~s1.found
            THEN [hang |-> TRUE, time |-> s1.t, state |-> WAIT]
            ELSE MonthWindow(s1.t, Add(s1.t, dur))
    IN  MonthAt(SearchDay(TimeDate(Year(clk[1]), Month(clk[1]), day, hour, minute, second),
                          day, 0),
                IF duration > Hour24x30 THEN Hour24x30 ELSE duration)

\* The non-repeating branch without the test against the end of the
\* window: a plan whose start has passed is EXPIRED.
nonRepeat_noWindow(st, clk) ==
    LET OnceAt(start) ==
            IF After(clk[1], start)
            THEN [hang |-> FALSE, time |-> start, state |-> EXPIRED]
            ELSE [hang |-> FALSE, time |-> start, state |-> WAIT]
    IN  OnceAt(TimeDate(st.year, st.month, st.day, st.hour, st.minute, st.second))

\* The non-repeating branch of parsePlan.  The second operand of && and the
\* else-if condition read the clock only when they are evaluated.
nonRepeat(st, clk) ==
    LET OnceWindow(start, end) ==
            IF After(clk[1], start)
            THEN IF Before(clk[2], end)
                 THEN [hang |-> FALSE, time |-> start, state |-> NOW]
                 ELSE IF After(clk[3], end)
                 THEN [hang |-> FALSE, time |-> start, state |-> EXPIRED]
                 ELSE [hang |-> FALSE, time |-> start, state |-> WAIT]
            ELSE IF After(clk[2], end)
            THEN [hang |-> FALSE, time |-> start, state |-> EXPIRED]
            ELSE [hang |-> FALSE, time |-> start, state |-> WAIT]
        OnceAt(start) == OnceWindow(start, Add(start, st.duration))
    IN  OnceAt(TimeDate(st.year, st.month, st.day, st.hour, st.minute, st.second))

(***************************************************************************)
(* Job.parsePlan.                                                          *)
(***************************************************************************)
Tok_every == <<"e", "v", "e", "r", "y">>

Tok_hour == <<"h", "o", "u", "r">>

Tok_day == <<"d", "a", "y">>

Tok_and == <<"a", "n", "d">>

\* Index of the first token that starts a comment, Len(input) + 1 if none.
CommentStart(input) ==
    IF \E i \in 1..Len(input) : HasPrefix(input[i], <<"#">>)
    THEN CHOOSE i \in 1..Len(input) :
            /\ HasPrefix(input[i], <<"#">>)
            /\ \A j \in 1..(i - 1) : ~HasPrefix(input[j], <<"#">>)
    ELSE Len(input) + 1

SpecsOf(input) == SubSeq(input, 1, CommentStart(input) - 1)

\* The comment tokens (joined by " " in the code), "#" stripped from the first.
CommentOf(input) ==
    LET c == CommentStart(input)
    IN  IF c > Len(input) THEN <<>>
        ELSE <<Tail(input[c])>> \o SubSeq(input, c + 1, Len(input))

InitVars ==
    [year |-> 0, month |-> 0, day |-> 0, hour |-> 0, minute |-> 0, second |-> 0,
     isRepeat |-> FALSE, isHourRepeat |-> FALSE, isDayRepeat |-> FALSE,
     isWeekRepeat |-> FALSE, isMonthRepeat |-> FALSE,
     dayOfWeek |-> 0, duration |-> 0, err |-> ""]

\* One iteration of the loop over specs: the switch, first matching case.
Classify(spec, st, now) ==
    IF ~st.isRepeat /\ datePattern(spec) THEN parseDate(spec, st, now)
    ELSE IF ~st.isRepeat /\ timePattern(spec) THEN parseTime(spec, st)
    ELSE IF spec = Tok_every THEN [st EXCEPT !.isRepeat = TRUE]
    ELSE IF spec = Tok_hour /\ st.isRepeat THEN [st EXCEPT !.isHourRepeat = TRUE]
    ELSE IF spec = Tok_day /\ st.isRepeat THEN [st EXCEPT !.isDayRepeat = TRUE]
    ELSE IF st.isRepeat /\ dayOfWeekPattern(spec)
         THEN LET r == parseDayOfWeek(spec, st)
              IN  IF r.err # "" THEN r ELSE [r EXCEPT !.isWeekRepeat = TRUE]
    ELSE IF st.isWeekRepeat /\ timePattern(spec) THEN parseTime(spec, st)
    ELSE IF st.isRepeat /\ dayOfMonthPattern(spec)
         THEN LET r == parseDayOfMonth(spec, st)
              IN  IF r.err # "" THEN r ELSE [r EXCEPT !.isMonthRepeat = TRUE]
    ELSE IF st.isMonthRepeat /\ timePattern(spec) THEN parseTime(spec, st)
    ELSE IF st.isHourRepeat /\ minuteSecondPattern(spec) THEN parseMinuteSecond(spec, st)
    ELSE IF st.isDayRepeat /\ timePattern(spec) THEN parseTime(spec, st)
    ELSE IF durationPattern(spec) THEN parseDuration(spec, st)
    ELSE st

RECURSIVE ClassifyAll(_, _, _, _)
ClassifyAll(specs, i, st, now) ==
    IF i > Len(specs) \/ st.err # "" THEN st
    ELSE ClassifyAll(specs, i + 1, Classify(specs[i], st, now), now)

\* The selection of the projector after the loop.
Project(st, log, clk) ==
    IF ~st.isRepeat THEN nonRepeat(st, clk)
    ELSE IF st.isHourRepeat
         THEN nextHourRepeat(log, st.duration, st.minute, st.second, clk)
    ELSE IF st.isDayRepeat
         THEN nextDayRepeat(log, st.duration, st.hour, st.minute, st.second, clk)
    ELSE IF st.isWeekRepeat
         THEN nextWeekRepeat(log, st.duration, st.dayOfWeek, st.hour, st.minute,
                             st.second, clk)
    ELSE nextMonthRepeat(log, st.duration, st.day, st.hour, st.minute, st.second, clk)

NoTime == [day |-> 0, sec |-> 0, frac |-> 0, mono |-> FALSE]

NoJob == [path |-> 0, Cmd |-> <<>>]

NoPlan == [err |-> "", hang |-> FALSE, time |-> NoTime, state |-> WAIT, comment |-> <<>>]

\* parsePlan(input) of a job whose Log is log.  err = "" stands for a nil
\* error; hang = TRUE for a call that does not return.
parsePlan(input, log, clk) ==
    LET Planned(p) ==
            [err |-> "", hang |-> p.hang, time |-> p.time, state |-> p.state,
             comment |-> CommentOf(input)]
        Parsed(st) ==
            IF st.err # ""
            THEN [err |-> st.err, hang |-> FALSE, time |-> NoTime, state |-> WAIT,
                  comment |-> <<>>]
            ELSE IF st.isRepeat /\ ~st.isHourRepeat /\ ~st.isDayRepeat
                    /\ ~st.isWeekRepeat /\ ~st.isMonthRepeat
            THEN [err |-> "invalid time spec", hang |-> FALSE, time |-> NoTime,
                  state |-> WAIT, comment |-> <<>>]
            ELSE Planned(Project(st, log, clk))
    IN  Parsed(ClassifyAll(SpecsOf(input), 1, InitVars, clk[1]))

(***************************************************************************)
(* Job files and run logs.  A job file is a sequence of lines, a line the  *)
(* sequence of its space-separated tokens (an empty token for each extra   *)
(* space).  A run-log file is a sequence of lines of characters.           *)
(***************************************************************************)
parsingPlan == 0

parsingArgs == 1

\* strings.TrimSpace on a line of tokens: the empty tokens at both ends go.
RECURSIVE TrimSpace(_)
TrimSpace(line) ==
    IF line = <<>> THEN line
    ELSE IF Head(line) = <<>> THEN TrimSpace(Tail(line))
    ELSE IF line[Len(line)] = <<>> THEN TrimSpace(SubSeq(line, 1, Len(line) - 1))
    ELSE line

\* The lines Job.Parse keeps: trimmed, not empty, not starting with "#".
RECURSIVE ReadLines(_)
ReadLines(file) ==
    IF file = <<>> THEN <<>>
    ELSE LET line == TrimSpace(Head(file))
         IN  IF line # <<>> /\ ~HasPrefix(line[1], <<"#">>)
             THEN <<line>> \o ReadLines(Tail(file))
             ELSE ReadLines(Tail(file))

\* strptime: fmt.Sscanf(s, "%d-%d-%d %d:%d:%d", ...), then time.Date.
strptime(s) ==
    LET Entry(r) ==
            IF Len(r.vals) # 6 \/ ~r.ok
            THEN [ok |-> FALSE, t |-> NoTime]
            ELSE [ok |-> TRUE,
                  t |-> TimeDate(r.vals[1], r.vals[2], r.vals[3], r.vals[4], r.vals[5],
                                 r.vals[6])]
    IN  Entry(Sscanf(s, <<"-", "-", " ", ":", ":">>))

\* Job.LoadLog: the instants of the lines that strptime accepts, in order.
RECURSIVE LoadLog(_)
LoadLog(logFile) ==
    LET Loaded(r, rest) == IF r.ok THEN <<r.t>> \o rest ELSE rest
    IN  IF logFile = <<>> THEN <<>>
        ELSE Loaded(strptime(Head(logFile)), LoadLog(Tail(logFile)))

\* strings.HasPrefix(line, "and ")
HasAndPrefix(line) == Len(line) >= 2 /\ line[1] = Tok_and

\* Job.Parse with a state machine that goes back to parsingPlan: a line
\* beginning with "and " is parsed as a plan in parsingArgs too.
RECURSIVE ParseLines_andReturns(_, _, _, _, _)
ParseLines_andReturns(lines, i, state, job, clk) ==
    LET WithPlan(p) ==
            IF p.err # "" THEN [job EXCEPT !.err = "parse datetime"]
            ELSE IF p.hang THEN [job EXCEPT !.hang = TRUE]
            ELSE ParseLines_andReturns(lines, i + 1, parsingPlan,
                                       [job EXCEPT !.Plans = Append(@, p)], clk)
    IN  IF i > Len(lines) THEN job
        ELSE IF i = 1 \/ HasAndPrefix(lines[i])
        THEN WithPlan(parsePlan(IF HasAndPrefix(lines[i]) THEN Tail(lines[i])
                                ELSE lines[i],
                                job.Log, clk))
        ELSE IF state = parsingPlan
        THEN ParseLines_andReturns(lines, i + 1, parsingArgs,
                                   [job EXCEPT !.Cmd = lines[i]], clk)
        ELSE ParseLines_andReturns(lines, i + 1, state,
                                   [job EXCEPT !.Args = Append(@, lines[i])], clk)

\* Job.Parse that puts each new plan in front of the plans parsed so far.
RECURSIVE ParseLines_prepend(_, _, _, _, _)
ParseLines_prepend(lines, i, state, job, clk) ==
    LET WithPlan(p) ==
            IF p.err # "" THEN [job EXCEPT !.err = "parse datetime"]
            ELSE IF p.hang THEN [job EXCEPT !.hang = TRUE]
            ELSE ParseLines_prepend(lines, i + 1, state,
                                    [job EXCEPT !.Plans = <<p>> \o @], clk)
    IN  IF i > Len(lines) THEN job
        ELSE IF state = parsingPlan
        THEN IF i = 1 \/ HasAndPrefix(lines[i])
             THEN WithPlan(parsePlan(IF HasAndPrefix(lines[i]) THEN Tail(lines[i])
                                     ELSE lines[i],
                                     job.Log, clk))
             ELSE ParseLines_prepend(lines, i + 1, parsingArgs,
                                     [job EXCEPT !.Cmd = lines[i]], clk)
        ELSE ParseLines_prepend(lines, i + 1, state,
                                [job EXCEPT !.Args = Append(@, lines[i])], clk)

\* The loop of Job.Parse over lines[i..], in state `state`.
RECURSIVE ParseLines(_, _, _, _, _)
ParseLines(lines, i, state, job, clk) ==
    LET WithPlan(p) ==
            IF p.err # "" THEN [job EXCEPT !.err = "parse datetime"]
            ELSE IF p.hang THEN [job EXCEPT !.hang = TRUE]
            ELSE ParseLines(lines, i + 1, state, [job EXCEPT !.Plans = Append(@, p)], clk)
    IN  IF i > Len(lines) THEN job
        ELSE IF state = parsingPlan
        THEN IF i = 1 \/ HasAndPrefix(lines[i])
             THEN WithPlan(parsePlan(IF HasAndPrefix(lines[i]) THEN Tail(lines[i])
                                     ELSE lines[i],
                                     job.Log, clk))
             ELSE ParseLines(lines, i + 1, parsingArgs, [job EXCEPT !.Cmd = lines[i]], clk)
        ELSE ParseLines(lines, i + 1, state, [job EXCEPT !.Args = Append(@, lines[i])], clk)

\* The Job that the walk callback of checkJobs constructs; err and hang are
\* what Parse answers: its error ("" for nil), and whether it returns at all.
NewJob(path) ==
    [Path |-> path, Cmd |-> <<>>, Args |-> <<>>, Plans |-> <<>>, Log |-> <<>>,
     err |-> "", hang |-> FALSE]

\* Job.Parse of the job at index path, with its run-log file.
JobParse(path, file, logFile, clk) ==
    ParseLines(ReadLines(file), 1, parsingPlan,
               [NewJob(path) EXCEPT !.Log = LoadLog(logFile)], clk)

\* fmt.Sprintf("%d-%d-%d %d:%d:%d", ...) of Job.Run
LogLine(now) ==
    FmtNat(Year(now)) \o <<"-">> \o FmtNat(Month(now)) \o <<"-">> \o FmtNat(Day(now))
        \o <<" ">> \o FmtNat(Hour(now)) \o <<":">> \o FmtNat(Minute(now)) \o <<":">>
        \o FmtNat(Second(now))

\* Job.Run with the subprocess started before the log file is opened.
Run_execFirst(job, now, w, x, logs, ls) ==
    IF ~w
    THEN [logs |-> logs,
          ls   |-> Append(ls, [job |-> job.path, at |-> now, logged |-> FALSE,
                               started |-> x /\ job.Cmd # <<>>])]
    ELSE [logs |-> [logs EXCEPT ![job.path] = Append(@, LogLine(now))],
          ls   |-> Append(ls, [job |-> job.path, at |-> now, logged |-> TRUE,
                               started |-> x /\ job.Cmd # <<>>])]

\* Job.Run at the instant now.  w: the log file can be opened and written;
\* x: the operating system starts the subprocess.  The answer is the log
\* files and the launches afterwards.  When the log cannot be written Run
\* returns before exec.Command; otherwise the log line is written first, the
\* subprocess is started after it, and a failure to start is not looked at.
\* Each call leaves one record in ls: logged tells whether it appended a
\* line to the run log, started whether its subprocess was started.
Run(job, now, w, x, logs, ls) ==
    IF ~w
    THEN [logs |-> logs,
          ls   |-> Append(ls, [job |-> job.path, at |-> now, logged |-> FALSE,
                               started |-> FALSE])]
    ELSE [logs |-> [logs EXCEPT ![job.path] = Append(@, LogLine(now))],
          ls   |-> Append(ls, [job |-> job.path, at |-> now, logged |-> TRUE,
                               started |-> x /\ job.Cmd # <<>>])]

\* for _, job := range nowJobs { job.Run() }
RECURSIVE RunAll(_, _, _, _, _, _)
RunAll(nowJobs, now, w, x, logs, ls) ==
    LET Ran(r) == RunAll(Tail(nowJobs), now, w, x, r.logs, r.ls)
    IN  IF nowJobs = <<>> THEN [logs |-> logs, ls |-> ls]
        ELSE Ran(Run(Head(nowJobs), now, w, x, logs, ls))

\* The loop over job.Plans with a job put into nowJobs once only, however
\* many of its plans are NOW.
RECURSIVE OverPlans_oncePerJob(_, _, _)
OverPlans_oncePerJob(job, i, acc) ==
    IF i > Len(job.Plans) THEN acc
    ELSE LET pl == job.Plans[i]
             me == [path |-> job.Path, Cmd |-> job.Cmd]
         IN  IF pl.state = WAIT
             THEN IF Before(pl.time, acc.nextPlan.time)
                  THEN OverPlans_oncePerJob(job, i + 1,
                                            [acc EXCEPT !.nextJob = me, !.nextPlan = pl])
                  ELSE OverPlans_oncePerJob(job, i + 1, acc)
             ELSE IF pl.state = NOW /\ \A n \in 1..Len(acc.nowJobs) : acc.nowJobs[n] # me
             THEN OverPlans_oncePerJob(job, i + 1, [acc EXCEPT !.nowJobs = Append(@, me)])
             ELSE OverPlans_oncePerJob(job, i + 1, acc)

\* The loop over job.Plans in the walk callback of checkJobs.
RECURSIVE OverPlans(_, _, _)
OverPlans(job, i, acc) ==
    IF i > Len(job.Plans) THEN acc
    ELSE LET pl == job.Plans[i]
             me == [path |-> job.Path, Cmd |-> job.Cmd]
         IN  IF pl.state = WAIT
             THEN IF Before(pl.time, acc.nextPlan.time)
                  THEN OverPlans(job, i + 1, [acc EXCEPT !.nextJob = me, !.nextPlan = pl])
                  ELSE OverPlans(job, i + 1, acc)
             ELSE IF pl.state = NOW
             THEN OverPlans(job, i + 1, [acc EXCEPT !.nowJobs = Append(@, me)])
             ELSE OverPlans(job, i + 1, acc)

\* The walk with a callback that goes on to the plans of a job although
\* Parse returned an error.
RECURSIVE Walk_keepFailed(_, _, _, _, _)
Walk_keepFailed(dir, logs, path, acc, clk) ==
    LET Parsed1(job) ==
            IF job.hang THEN [acc EXCEPT !.hang = TRUE]
            ELSE Walk_keepFailed(dir, logs, path + 1, OverPlans(job, 1, acc), clk)
    IN  IF path > Len(dir) \/ acc.hang THEN acc
        ELSE Parsed1(JobParse(path, dir[path], logs[path], clk))

\* filepath.Walk over the job files, from the file at index path on.
RECURSIVE Walk(_, _, _, _, _)
Walk(dir, logs, path, acc, clk) ==
    LET Parsed1(job) ==
            IF job.hang THEN [acc EXCEPT !.hang = TRUE]
            ELSE IF job.err # "" THEN Walk(dir, logs, path + 1, acc, clk)
            ELSE Walk(dir, logs, path + 1, OverPlans(job, 1, acc), clk)
    IN  IF path > Len(dir) \/ acc.hang THEN acc
        ELSE Parsed1(JobParse(path, dir[path], logs[path], clk))

\* checkJobs up to the end of the walk: nowJobs, nextJob and nextPlan.
checkJobs(dir, logs, clk) ==
    Walk(dir, logs, 1,
         [nowJobs |-> <<>>, nextJob |-> NoJob,
          nextPlan |-> [NoPlan EXCEPT !.time = TimeDate(9999, 1, 1, 0, 0, 0)],
          hang |-> FALSE],
         clk)

(***************************************************************************)
(* Inputs.  A schedule line is written from a description `given` (what    *)
(* the author of the job file means) by the formatting operators below, so *)
(* that what parsePlan reads back can be compared with what was written.   *)
(***************************************************************************)
RECURSIVE Pad(_, _)
Pad(s, w) == IF Len(s) < w THEN Pad(<<"0">> \o s, w) ELSE s

\* YYYY-MM-DD (w = 4) or YY-MM-DD (w = 2)
FmtDate(y, w, m, d) == Pad(FmtNat(y), w) \o <<"-">> \o Pad(FmtNat(m), 2) \o <<"-">> \o Pad(FmtNat(d), 2)

\* MM-DD
FmtMonthDay(m, d) == Pad(FmtNat(m), 2) \o <<"-">> \o Pad(FmtNat(d), 2)

\* H:M and H:M:S
FmtHM(h, mi) == Pad(FmtNat(h), 2) \o <<":">> \o Pad(FmtNat(mi), 2)

FmtHMS(h, mi, sc) == FmtHM(h, mi) \o <<":">> \o Pad(FmtNat(sc), 2)

\* ~<n><unit>
FmtDur(n, unit) == <<"~">> \o FmtNat(n) \o <<unit>>

\* <n>st, <n>nd, <n>rd, <n>th
FmtOrdinal(n) ==
    FmtNat(n) \o (IF n % 10 = 1 /\ n # 11 THEN <<"s", "t">>
                  ELSE IF n % 10 = 2 /\ n # 12 THEN <<"n", "d">>
                  ELSE IF n % 10 = 3 /\ n # 13 THEN <<"r", "d">>
                  ELSE <<"t", "h">>)

\* Weekday names as a job file writes them, Sunday first.
WeekdayNames ==
    << <<"s", "u", "n">>, <<"M", "o", "n">>, <<"t", "u", "e", "s", "d", "a", "y">>,
       <<"W", "E", "D">>, <<"t", "h", "u">>, <<"f", "r", "i", "d", "a", "y">>,
       <<"s", "a", "t">> >>

\* The time-of-day part of a line: tm is "none", "hm" or "hms".
TimeToks(g) ==
    IF g.tm = "hm" THEN <<FmtHM(g.h, g.mi)>>
    ELSE IF g.tm = "hms" THEN <<FmtHMS(g.h, g.mi, g.s)>>
    ELSE <<>>

\* The duration part: dn units of du, du = "" for no duration token.
DurToks(g) == IF g.du = "" THEN <<>> ELSE <<FmtDur(g.dn, g.du)>>

\* The duration a description asks for, in seconds.
GivenDuration(g) ==
    IF g.du = "h" THEN g.dn * SecondsPerHour
    ELSE IF g.du = "m" THEN g.dn * SecondsPerMinute
    ELSE IF g.du = "s" THEN g.dn
    ELSE 0

LineOf(g) ==
    IF g.kind = "date" THEN <<FmtDate(g.y, g.yw, g.m, g.d)>> \o TimeToks(g) \o DurToks(g)
    ELSE IF g.kind = "monthday" THEN <<FmtMonthDay(g.m, g.d)>> \o TimeToks(g) \o DurToks(g)
    ELSE IF g.kind = "hour"
         THEN <<Tok_every, Tok_hour>>
              \o (IF g.tm = "ms" THEN <<Pad(FmtNat(g.mi), 2) \o <<":">> \o Pad(FmtNat(g.s), 2)>>
                  ELSE IF g.tm = "m" THEN <<FmtNat(g.mi)>>
                  ELSE <<>>)
              \o DurToks(g)
    ELSE IF g.kind = "day" THEN <<Tok_every, Tok_day>> \o TimeToks(g) \o DurToks(g)
    ELSE IF g.kind = "week"
         THEN <<Tok_every, WeekdayNames[g.wd + 1]>> \o TimeToks(g) \o DurToks(g)
    ELSE IF g.kind = "month"
         THEN <<Tok_every, FmtOrdinal(g.d)>> \o TimeToks(g) \o DurToks(g)
    ELSE g.raw

G0 ==
    [kind |-> "raw", y |-> 0, yw |-> 4, m |-> 0, d |-> 0, wd |-> 0, tm |-> "none",
     h |-> 0, mi |-> 0, s |-> 0, dn |-> 0, du |-> "", raw |-> <<>>, wk |-> 0]

\* Time-of-day parts and duration parts the descriptions are built from.
WithTime(g, tm, h, mi, sc) == [g EXCEPT !.tm = tm, !.h = h, !.mi = mi, !.s = sc]

WithDur(g, dn, du) == [g EXCEPT !.dn = dn, !.du = du]

DayTimes(g) ==
    {g, WithTime(g, "hm", 9, 0, 0), WithTime(g, "hms", 23, 0, 30)}

DateGiven ==
    UNION {UNION {{WithDur(t, 0, ""), WithDur(t, 2, "h")} :
                  t \in {g, WithTime(g, "hm", 8, 0, 0), WithTime(g, "hms", 23, 59, 59),
                         WithTime(g, "hm", 24, 60, 0)}} :
           g \in {[G0 EXCEPT !.kind = "date", !.y = yr[1], !.yw = yr[2], !.m = md[1], !.d = md[2]] :
                  yr \in {<<2024, 4>>, <<24, 2>>, <<999, 4>>, <<1000, 4>>},
                  md \in {<<1, 1>>, <<2, 29>>, <<2, 30>>, <<12, 31>>, <<13, 1>>}}}

MonthDayGiven ==
    UNION {{g, WithTime(g, "hm", 8, 0, 0)} :
           g \in {[G0 EXCEPT !.kind = "monthday", !.m = md[1], !.d = md[2]] :
                  md \in {<<1, 1>>, <<12, 25>>}}}

HourGiven ==
    UNION {{WithDur(t, 0, ""), WithDur(t, 20, "m"), WithDur(t, 2, "h")} :
           t \in {[G0 EXCEPT !.kind = "hour"],
                  [G0 EXCEPT !.kind = "hour", !.tm = "m", !.mi = 30],
                  [G0 EXCEPT !.kind = "hour", !.tm = "ms", !.mi = 50, !.s = 30]}}

DayGiven ==
    UNION {{WithDur(t, 0, ""), WithDur(t, 2, "h"), WithDur(t, 48, "h")} :
           t \in DayTimes([G0 EXCEPT !.kind = "day"])}

WeekGiven ==
    UNION {{WithDur(t, 0, ""), WithDur(t, 48, "h"), WithDur(t, 240, "h")} :
           t \in UNION {{g, WithTime(g, "hm", 9, 0, 0)} :
                        g \in {[G0 EXCEPT !.kind = "week", !.wd = w] : w \in {0, 1, 3, 6}}}}

\* Weekly lines with the occurrence in the week of Monday 2024-03-25, twelve
\* weeks after the first week of 2024: the readings run up to the change of
\* the zone's offset on Sunday 2024-03-31.  And `every Sun 23:30` with the
\* occurrence on Sunday 2024-03-24, the week before.
WeekSpringGiven ==
    UNION {{WithDur(t, 0, ""), WithDur(t, 48, "h")} :
           t \in {WithTime([G0 EXCEPT !.kind = "week", !.wd = w, !.wk = 12],
                           "hm", 9, 0, 0) : w \in {1, 3}}}
        \cup {WithTime([G0 EXCEPT !.kind = "week", !.wd = 0, !.wk = 11], "hm", 23, 30, 0)}

MonthGiven ==
    UNION {{WithDur(t, 0, ""), WithDur(t, 240, "h"), WithDur(t, 960, "h")} :
           t \in UNION {{g, WithTime(g, "hm", 9, 0, 0)} :
                        g \in {[G0 EXCEPT !.kind = "month", !.d = n] :
                               n \in {0, 1, 5, 28, 31, 32, 99}}}}

RawLines ==
    { <<<<"e", "v", "e", "r", "y">>, <<"h", "o", "u", "r">>, <<"d", "a", "y">>>>,
      <<<<"e", "v", "e", "r", "y">>, <<"m", "o", "n">>, <<"5", "t", "h">>>>,
      <<<<"e", "v", "e", "r", "y">>, <<"d", "a", "y">>, <<"f", "r", "i">>, <<"0", "9", ":", "0", "0">>>>,
      <<<<"e", "v", "e", "r", "y">>, <<"5", "t", "h">>, <<"h", "o", "u", "r">>, <<"3", "0">>>>,
      <<<<"e", "v", "e", "r", "y">>, <<"h", "o", "u", "r">>, <<"m", "o", "n">>, <<"3", "0">>>>,
      <<<<"0", "8", ":", "0", "0">>>>,
      <<<<"~", "2", "h">>>>,
      <<<<"f", "o", "o">>>>,
      <<<<"0", "8", ":", "0", "0">>, <<"~", "2", "h">>>>,
      <<<<"e", "v", "e", "r", "y">>>>,
      <<<<"e", "v", "e", "r", "y">>, <<"~", "2", "h">>>>,
      <<<<"e", "v", "e", "r", "y">>, <<"s", "a", "l", "m", "o", "n">>>>,
      <<<<"e", "v", "e", "r", "y">>, <<"m", "o", "n", "t", "h">>>>,
      <<<<"e", "v", "e", "r", "y">>, <<"h", "o", "u", "r">>, <<"3", "0">>, <<"#", "c">>, <<"x">>>>,
      <<<<"2", "0", "2", "4", "-", "0", "1", "-", "0", "1">>, <<"0", "8", ":", "0", "0">>, <<"x">>, <<"#", "c">>>> }

\* `every mon ~10d` and `every 1st ~40d`: durations written in days.
WeekTenDays ==
    [G0 EXCEPT !.raw = <<Tok_every, <<"m", "o", "n">>, FmtDur(10, "d")>>, !.wd = 1,
               !.dn = 10, !.du = "d"]

MonthFortyDays ==
    [G0 EXCEPT !.raw = <<Tok_every, FmtOrdinal(1), FmtDur(40, "d")>>, !.d = 1,
               !.dn = 40, !.du = "d"]

RawGiven == {[G0 EXCEPT !.raw = l] : l \in RawLines} \cup {WeekTenDays, MonthFortyDays}

AllGiven ==
    DateGiven \cup MonthDayGiven \cup HourGiven \cup DayGiven \cup WeekGiven
        \cup WeekSpringGiven \cup MonthGiven \cup RawGiven

\* The cadence period of a description, and the window length it asks for.
Period(g) ==
    IF g.kind = "hour" THEN Hour1
    ELSE IF g.kind = "day" THEN Hour24
    ELSE IF g.kind = "week" THEN Hour24x7
    ELSE IF g.kind = "month" THEN Hour24x30
    ELSE 0

Window(g) ==
    IF Period(g) > 0 /\ GivenDuration(g) > Period(g) THEN Period(g) ELSE GivenDuration(g)

\* An occurrence of the schedule that g describes, around which the clock
\* readings and the log entries of the inputs are placed.
Ref(g) ==
    IF g.kind = "date" /\ g.y \in {24, 2024} THEN TimeDate(2024, g.m, g.d, g.h, g.mi, g.s)
    ELSE IF g.kind = "hour" THEN TimeDate(2024, 1, 1, 10, g.mi, g.s)
    ELSE IF g.kind = "day" THEN TimeDate(2024, 1, 1, g.h, g.mi, g.s)
    ELSE IF g.kind = "week"
    THEN TimeDate(2024, 1, (IF g.wd = 0 THEN 7 ELSE g.wd) + 7 * g.wk, g.h, g.mi, g.s)
    ELSE IF g.kind = "month" /\ g.d \in 1..31 THEN TimeDate(2024, 1, g.d, g.h, g.mi, g.s)
    ELSE TimeDate(2024, 1, 1, 10, 0, 0)

Offsets(g) ==
    LET w == Window(g)
        p == Period(g)
    IN  {o \in {0 - 1, 0, 1, w \div 2, w - 1, w, w + 1, p \div 2, p - 1, p, p + 1} :
            o >= 0 - 1}

LogOffsets(g) ==
    LET w == Window(g)
    IN  {0 - 1, 0, w \div 2, w, w + 1, Period(g)}

\* A reading of time.Now(): an instant, exactly on the second or inside it,
\* with or without a monotonic clock reading.
Reading(t, fr, mn) == [t EXCEPT !.frac = fr, !.mono = mn]

(***************************************************************************)
(* SpecPlan: one call of Job.parsePlan on every input of AllGiven, at      *)
(* clock readings around an occurrence of the schedule and with run logs       *)
(* of at most MaxLogLen entries around it.                                 *)
(***************************************************************************)
MaxLogLen == 1

RECURSIVE LogsOver(_, _)
LogsOver(pool, n) ==
    IF n = 0 THEN {<<>>}
    ELSE LET shorter == LogsOver(pool, n - 1)
         IN  shorter \cup {Append(l, e) : l \in {x \in shorter : Len(x) = n - 1}, e \in pool}

SearchIdle ==
    /\ skind = "none"
    /\ sanchor = 0
    /\ sT = NoTime
    /\ steps = 0
    /\ spc = "off"

ParseIdle ==
    /\ jobFile = <<>>
    /\ runLog = <<>>
    /\ parseClock = <<NoTime, NoTime, NoTime, NoTime>>
    /\ parsedJob = NewJob(0)
    /\ jpc = "off"

DaemonIdle ==
    /\ jobDir = <<>>
    /\ logFiles = <<>>
    /\ wall = NoTime
    /\ pc = "off"
    /\ nextJob = NoJob
    /\ nextPlan = NoPlan
    /\ launches = <<>>
    /\ env = [step |-> 0, end |-> NoTime]

PlanIdle ==
    /\ given = G0
    /\ schedLine = <<>>
    /\ jobLog = <<>>
    /\ clock = <<NoTime, NoTime, NoTime, NoTime>>
    /\ result = NoPlan
    /\ ppc = "off"

PlanInit ==
    /\ given \in AllGiven
    /\ schedLine = LineOf(given)
    /\ jobLog \in LogsOver({Add(Ref(given), o) : o \in LogOffsets(given)}, MaxLogLen)
    /\ \E o \in Offsets(given), fr \in {0, 1}, mn \in BOOLEAN :
          LET r == Reading(Add(Ref(given), o), fr, mn)
          IN  clock = <<r, r, r, r>>
    /\ result = NoPlan
    /\ ppc = "input"
    /\ SearchIdle
    /\ ParseIdle
    /\ DaemonIdle

Resolve ==
    /\ ppc = "input"
    /\ result' = parsePlan(schedLine, jobLog, clock)
    /\ ppc' = "done"
    /\ UNCHANGED <<given, schedLine, jobLog, clock>>
    /\ UNCHANGED searchVars
    /\ UNCHANGED parseVars
    /\ UNCHANGED daemonVars

PlanNext == Resolve

SpecPlan == PlanInit /\ [][PlanNext]_vars

(***************************************************************************)
(* Properties of one call of parsePlan (SpecPlan).                         *)
(***************************************************************************)
RepeatKinds == {"hour", "day", "week", "month"}

Leq(a, b) == ~After(a, b)

\* The instant l lies in the closed interval [t, t + w].
InWindow(l, t, w) == Leq(t, l) /\ Leq(l, Add(t, w))

Returned == ppc = "done" /\ result.err = "" /\ ~result.hang

\* C2: a repeat projector (hourly, daily, weekly, monthly) that returns NOW
\* for the window [t, t + min(duration, period)] has no run-log entry L
\* with t <= L <= tEnd; with such an entry it never returns NOW for that
\* window, whatever the instant of the pass.
C2_LoggedWindowNotNow ==
    (Returned /\ given.kind \in RepeatKinds /\ result.state = NOW)
        => \A i \in 1..Len(jobLog) : ~InWindow(jobLog[i], result.time, Window(given))

\* The pass falls inside the window of the occurrence Ref(given), the run
\* log has an entry on the first instant of that window, and the projector
\* answers WAIT for a later occurrence.
C2_Witness ==
    /\ Returned
    /\ given.kind \in RepeatKinds
    /\ Window(given) > 0
    /\ Len(jobLog) = 1
    /\ jobLog[1] = Ref(given)
    /\ InWindow(clock[1], Ref(given), Window(given))
    /\ clock[1].frac = 1
    /\ result.state = WAIT
    /\ After(result.time, Ref(given))

DaysInMonth(y, m) ==
    IF m \in {4, 6, 9, 11} THEN 30
    ELSE IF m = 2
         THEN IF (y % 4 = 0 /\ y % 100 # 0) \/ y % 400 = 0 THEN 29 ELSE 28
    ELSE 31

GivenYear(g) == IF g.y < 1000 THEN g.y + 2000 ELSE g.y

\* The fields of g name an existing calendar date and time of day.
ValidFields(g) ==
    /\ g.m \in 1..12
    /\ g.d \in 1..DaysInMonth(GivenYear(g), g.m)
    /\ g.h \in 0..23
    /\ g.mi \in 0..59
    /\ g.s \in 0..59

\* The timestamp of the plan has the fields written in the line.
ExactTimestamp ==
    /\ result.err = ""
    /\ Year(result.time) = GivenYear(given)
    /\ Month(result.time) = given.m
    /\ Day(result.time) = given.d
    /\ Hour(result.time) = given.h
    /\ Minute(result.time) = given.mi
    /\ Second(result.time) = given.s

\* C3 (as claimed): a non-repeating plan with timestamp t and duration d is
\* EXPIRED iff now > t+d, NOW iff t <= now <= t+d, WAIT otherwise; now = t
\* and now = t+d give NOW.
C3_InclusiveWindow ==
    (Returned /\ given.kind = "date")
        => result.state =
              (IF After(clock[1], Add(result.time, GivenDuration(given))) THEN EXPIRED
               ELSE IF InWindow(clock[1], result.time, GivenDuration(given)) THEN NOW
               ELSE WAIT)

\* A cadence of the schedule: the number of is...Repeat flags the tokens set.
CadenceCount(v) ==
    (IF v.isHourRepeat THEN 1 ELSE 0) + (IF v.isDayRepeat THEN 1 ELSE 0)
        + (IF v.isWeekRepeat THEN 1 ELSE 0) + (IF v.isMonthRepeat THEN 1 ELSE 0)

\* C7 (as claimed): a line whose tokens activate two or more different
\* cadences is rejected with a parse error and gives no Plan.
C7_ConflictRejected ==
    (ppc = "done" /\ CadenceCount(ClassifyAll(SpecsOf(schedLine), 1, InitVars, clock[1])) >= 2)
        => result.err # ""

\* C8 (as claimed): a non-repeating line whose date token is MM-DD resolves
\* without error to that month and day of the current year.
C8_MonthDayCurrentYear ==
    (ppc = "done" /\ given.kind = "monthday")
        => /\ result.err = ""
           /\ Year(result.time) = Year(clock[1])
           /\ Month(result.time) = given.m
           /\ Day(result.time) = given.d

C10_NoDateNoCadenceRejected ==
    (/\ ppc = "done"
     /\ \A i \in 1..Len(SpecsOf(schedLine)) :
           /\ SpecsOf(schedLine)[i] # Tok_every
           /\ ~datePattern(SpecsOf(schedLine)[i]))
        => result.err # ""

\* The occurrences of the schedule g around Ref(g): the anchored instant of
\* each hour, day or week, or of each month that has the anchor day.
Occurrences(g) ==
    IF g.kind = "month"
    THEN {o \in {TimeDate(2024, mth, g.d, g.h, g.mi, g.s) : mth \in 0..4} : Day(o) = g.d}
    ELSE {Add(Ref(g), k * Period(g)) : k \in (0 - 1)..2}

\* The window of occurrence o is open at the pass and not yet logged.
Due(o) ==
    /\ InWindow(clock[1], o, Window(given))
    /\ \A i \in 1..Len(jobLog) : ~InWindow(jobLog[i], o, Window(given))

\* C6 (as claimed): whenever the current instant lies inside the window of
\* some occurrence o and the run log has no entry in that window, the
\* projector returns (o, NOW), also for an occurrence that began in the
\* previous hour, day, week or month; otherwise it returns the next
\* upcoming occurrence with WAIT.  Stated for the instants strictly inside
\* a second, where the answer does not depend on how == compares a clock
\* reading with a window bound.
C6_OpenWindowIsNow ==
    (Returned /\ given.kind \in RepeatKinds /\ Occurrences(given) # {} /\ clock[1].frac = 1)
        => IF \E o \in Occurrences(given) : Due(o)
           THEN result.state = NOW /\ result.time \in {o \in Occurrences(given) : Due(o)}
           ELSE /\ result.state = WAIT
                /\ result.time \in Occurrences(given)
                /\ Leq(clock[1], result.time)
                /\ \A o \in Occurrences(given) :
                      Leq(clock[1], o) => Leq(result.time, o)

\* The candidate occurrence of a schedule of the given cadence with the
\* anchor fields of g, at the reading now: the anchored instant of the
\* current clock hour (hourly), of the current day (daily), of the first day
\* from today on with the anchor weekday (weekly), of the anchor day of the
\* current month (monthly).
Candidate(kind, g, now) ==
    IF kind = "hour"
    THEN TimeDate(Year(now), Month(now), Day(now), Hour(now), g.mi, g.s)
    ELSE IF kind = "day"
    THEN TimeDate(Year(now), Month(now), Day(now), g.h, g.mi, g.s)
    ELSE IF kind = "week"
    THEN SearchWeekday(TimeDate(Year(now), Month(now), Day(now), g.h, g.mi, g.s), g.wd)
    ELSE TimeDate(Year(now), Month(now), g.d, g.h, g.mi, g.s)

\* The projector answers NOW exactly when the pass lies in the window of
\* length w that starts at the candidate t and the run log has no entry in
\* that window.
NowIffIn(t, w) ==
    (result.state = NOW)
        <=> (between(clock[1], t, Add(t, w)) /\ ~hasLog(jobLog, t, Add(t, w)))

\* C12 (amended): the window of each repeat projector, for the NOW test and
\* for the run-log test, has length min(duration, period) with period 1
\* hour, 24 hours, 7 days, 30 days; durations are written in h, m or s
\* (`~2h`, `~48h`, `~240h`, `~960h` give 1 hour, 24 hours, 7 days, 30 days).
C12_ClampedWindow ==
    (/\ Returned
     /\ given.kind \in RepeatKinds
     /\ given.kind = "month" => Day(Candidate("month", given, clock[1])) = given.d)
        => NowIffIn(Candidate(given.kind, given, clock[1]), Window(given))

\* A daily line with `~48h`, a run-log entry one second after the end of the
\* 24-hour window and a pass inside that window: the plan is NOW.
C12_Witness ==
    /\ Returned
    /\ given.kind = "day"
    /\ GivenDuration(given) = 2 * Hour24
    /\ Len(jobLog) = 1
    /\ jobLog[1] = Add(result.time, Hour24 + 1)
    /\ result.state = NOW

\* C12 (as claimed): the same, and the cases weekly `~10d` and monthly `~40d`
\* give windows of 7 days and 30 days.
C12_SpecCases ==
    /\ C12_ClampedWindow
    /\ (Returned /\ given = WeekTenDays)
          => NowIffIn(Candidate("week", given, clock[1]), Hour24x7)
    /\ (Returned /\ given = MonthFortyDays)
          => NowIffIn(Candidate("month", given, clock[1]), Hour24x30)

\* Tokens of no grammar category: a word, a word that contains a weekday
\* abbreviation, a word that ends like a date.
UnknownTokens ==
    { <<"f", "o", "o">>,
      <<"s", "a", "l", "m", "o", "n">>,
      <<"x", "2", "4", "-", "0", "1", "-", "0", "1">> }

\* The line with the token tok inserted before its i-th token.
InsertAt(line, i, tok) == SubSeq(line, 1, i - 1) \o <<tok>> \o SubSeq(line, i, Len(line))

\* C13 (as claimed): a token of no grammar category, inserted at any
\* position before the comment of a line that resolves, never makes the
\* line fail and never changes its timestamp, state and comment.
C13_UnknownTokenIgnored ==
    Returned
        => \A tok \in UnknownTokens : \A i \in 1..CommentStart(schedLine) :
              parsePlan(InsertAt(schedLine, i, tok), jobLog, clock) = result

\* The number of days from the day of t to the first later day that is a
\* dayOfWeek (1 .. 7).
DaysAhead(t, dayOfWeek) == ((dayOfWeek - Weekday(t) + 6) % 7) + 1

\* C20 (as claimed): a weekly line `every <weekday> H:M [~dur]` resolved on
\* a day of another weekday gives WAIT with the time H:M:00 of the local
\* wall clock on the first later date (1 to 6 days ahead) that has the
\* anchor weekday.
C20_NextAnchorWeekday ==
    (Returned /\ given.kind = "week" /\ given.tm = "hm"
        /\ Weekday(clock[1]) # given.wd)
        => /\ result.state = WAIT
           /\ DaysAhead(clock[1], given.wd) \in 1..6
           /\ result.time
                 = TimeDate(Year(clock[1]), Month(clock[1]),
                            Day(clock[1]) + DaysAhead(clock[1], given.wd),
                            given.h, given.mi, 0)

\* Every reading of the clock that the call takes satisfies R.
AllReads(R(_)) == \A i \in 1..Len(clock) : R(clock[i])

\* C21: a non-repeating plan with timestamp t and duration d > 0 is NOW at
\* every instant strictly between t and t + d, EXPIRED at every instant
\* strictly after t + d and WAIT at every instant strictly before t.
C21_StrictWindow ==
    (Returned /\ given.kind = "date" /\ GivenDuration(given) > 0)
        => LET t == result.time
               e == Add(result.time, GivenDuration(given))
               Inside(r) == After(r, t) /\ Before(r, e)
               Past(r) == After(r, e)
               Ahead(r) == Before(r, t)
           IN  /\ AllReads(Inside) => result.state = NOW
               /\ AllReads(Past) => result.state = EXPIRED
               /\ AllReads(Ahead) => result.state = WAIT

\* The line `2024-01-01 08:00 ~2h` resolved at 09:00 on that day is NOW.
C21_Witness ==
    /\ Returned
    /\ given.kind = "date"
    /\ given.tm = "hm"
    /\ GivenDuration(given) = 2 * SecondsPerHour
    /\ result.time = TimeDate(2024, 1, 1, 8, 0, 0)
    /\ clock[1] = Reading(TimeDate(2024, 1, 1, 9, 0, 0), 0, TRUE)
    /\ result.state = NOW

\* The line of the call has the token `every`.
RepeatLine == \E i \in 1..Len(SpecsOf(schedLine)) : SpecsOf(schedLine)[i] = Tok_every

\* C27: a repeating plan is never EXPIRED: for every cadence, instant and
\* run log the Plan of a line with `every` is NOW or WAIT.
C27_RepeatNeverExpired ==
    (Returned /\ RepeatLine) => result.state \in {NOW, WAIT}

\* An hourly line resolved after the window of the current hour has passed
\* is WAIT for the next hour.
C27_Witness ==
    /\ Returned
    /\ given.kind = "hour"
    /\ Window(given) > 0
    /\ After(clock[1], Add(Candidate("hour", given, clock[1]), Window(given)))
    /\ result.state = WAIT
    /\ result.time = Add(Candidate("hour", given, clock[1]), Hour1)

\* The candidate t of the projector of the cadence of g at the reading now;
\* for a monthly line the first date from the anchor day of the current
\* month on that has the anchor day.
CandidateT(g, now) ==
    IF g.kind = "month"
    THEN SearchDay(TimeDate(Year(now), Month(now), g.d, g.h, g.mi, g.s), g.d, 0).t
    ELSE Candidate(g.kind, g, now)

\* The date of u is the first date after the date of t with the day of
\* month day.
NextDayOfMonth(t, u, day) ==
    /\ u.day > t.day
    /\ Day(u) = day
    /\ \A n \in (t.day + 1)..(u.day - 1) : CivilFromDays(n).day # day

\* C24 (as claimed): a repeat projector that does not return NOW returns
\* WAIT; with a candidate t in the past the time is t + 1 hour (hourly),
\* t + 24 hours (daily), on the next date with the anchor weekday, 7 days
\* after t (weekly), on the next date with the anchor day of month
\* (monthly); with t not in the past the time is t.
C24_AdvanceToNext ==
    (Returned /\ given.kind \in RepeatKinds /\ result.state # NOW)
        => LET t == CandidateT(given, clock[1])
               u == result.time
           IN  /\ result.state = WAIT
               /\ IF ~After(clock[1], t) THEN u = t
                  ELSE IF given.kind = "hour" THEN u = Add(t, Hour1)
                  ELSE IF given.kind = "day" THEN u = Add(t, Hour24)
                  ELSE IF given.kind = "week"
                       THEN Weekday(u) = given.wd /\ u.day = t.day + 7
                  ELSE NextDayOfMonth(t, u, given.d)

(***************************************************************************)
(* SpecDrift: one call of Job.parsePlan during which the clock goes on.    *)
(* Every time.Now() of the call is a reading of its own: the first n reads *)
(* fall into one second, the later ones into that second or the next one.  *)
(***************************************************************************)
HourAt75 == [G0 EXCEPT !.kind = "hour", !.tm = "m", !.mi = 75]

DriftGiven ==
    HourGiven
        \cup {HourAt75,
              WithDur(WithTime([G0 EXCEPT !.kind = "day"], "hm", 9, 0, 0), 2, "h"),
              WithDur(WithTime([G0 EXCEPT !.kind = "week", !.wd = 1], "hm", 9, 0, 0), 48, "h"),
              WithTime([G0 EXCEPT !.kind = "month", !.d = 1], "hm", 9, 0, 0),
              WithDur(WithTime([G0 EXCEPT !.kind = "date", !.y = 2024, !.m = 1, !.d = 1],
                               "hm", 8, 0, 0), 2, "h")}

\* The instants of the reads: around the occurrence Ref(g) and its window,
\* and the last second of the hour and of the day with the second after it.
DriftInstants(g) ==
    {Add(Ref(g), o) : o \in {0 - 1, 0, 1, Window(g), Window(g) + 1}}
        \cup {TimeDate(Year(Ref(g)), Month(Ref(g)), Day(Ref(g)), Hour(Ref(g)), 59, 59),
              TimeDate(Year(Ref(g)), Month(Ref(g)), Day(Ref(g)), Hour(Ref(g)) + 1, 0, 0),
              TimeDate(Year(Ref(g)), Month(Ref(g)), Day(Ref(g)), 23, 59, 59),
              TimeDate(Year(Ref(g)), Month(Ref(g)), Day(Ref(g)) + 1, 0, 0, 0)}

DriftInit ==
    /\ given \in DriftGiven
    /\ schedLine = LineOf(given)
    /\ jobLog \in LogsOver({Add(Ref(given), o) : o \in {0, Window(given) + 1}}, MaxLogLen)
    /\ \E a \in DriftInstants(given), later \in {0, 1}, n \in 1..3 :
          clock = [i \in 1..4 |-> IF i <= n THEN Reading(a, 1, TRUE)
                                  ELSE Reading(Add(a, later), 1, TRUE)]
    /\ result = NoPlan
    /\ ppc = "input"
    /\ SearchIdle
    /\ ParseIdle
    /\ DaemonIdle

SpecDrift == DriftInit /\ [][PlanNext]_vars

\* The call with every read of the clock giving the instant r.
AtInstant(r) == parsePlan(schedLine, jobLog, <<r, r, r, r>>)

\* C22 (as claimed): the Plan of a line is a function of the current
\* instant, the line and the run log: what a call returns is what the line
\* and the log give at one instant of the call.
C22_FunctionOfInstant ==
    ppc = "done" => \E i \in 1..Len(clock) : result = AtInstant(clock[i])

\* The anchored instant of the clock hour of the reading r.
InHourOf(r) == TimeDate(Year(r), Month(r), Day(r), Hour(r), given.mi, given.s)

\* C25 (as claimed): the Plan of `every hour M` or `every hour M:S` has
\* minute M and second S and lies in the current clock hour, or in the
\* following one when the occurrence of the current hour is past and the
\* plan is not due.
C25_MinuteOfCurrentHour ==
    (Returned /\ given.kind = "hour")
        => /\ Minute(result.time) = given.mi
           /\ Second(result.time) = given.s
           /\ \E i \in 1..Len(clock) :
                 \/ result.time = InHourOf(clock[i])
                 \/ /\ result.time = Add(InHourOf(clock[i]), Hour1)
                    /\ result.state = WAIT
                    /\ After(clock[i], InHourOf(clock[i]))

\* C26 (as claimed): a Plan that a repeat projector returns with state WAIT
\* has a timestamp not earlier than the current instant, also when the
\* clock goes on between the reads of the projector: not earlier than the
\* first read of the call.
C26_WaitNotInPast ==
    (Returned /\ RepeatLine /\ result.state = WAIT) => Leq(clock[1], result.time)

(***************************************************************************)
(* SpecSearch: the day-by-day search loops of nextWeekRepeat and           *)
(* nextMonthRepeat, one iteration per step.  The loop before the NOW test  *)
(* starts at time.Date(y, m, d, ...) of the current date (weekly) or at    *)
(* time.Date(y, m, day, ...) with the anchor day (monthly); the loop after *)
(* it starts one day after the occurrence found.  A loop that has run for  *)
(* more than SearchFuel steps is not followed further.                     *)
(***************************************************************************)
MaxOrdinal == 99

SearchMatch == IF skind = "week" THEN Weekday(sT) = sanchor ELSE Day(sT) = sanchor

SearchInit ==
    /\ skind \in {"week", "month"}
    /\ sanchor \in (IF skind = "week" THEN 0..6 ELSE 0..MaxOrdinal)
    /\ \E y \in {2023, 2024}, m \in 1..12, d \in {1, 15, 31} :
          sT = IF skind = "week" THEN TimeDate(y, m, d, 9, 0, 0)
               ELSE TimeDate(y, m, sanchor, 9, 0, 0)
    /\ steps = 0
    /\ spc = "loop"
    /\ PlanIdle
    /\ ParseIdle
    /\ DaemonIdle

\* t = t.Add(time.Hour * 24), while the loop condition holds
LoopStep ==
    /\ spc \in {"loop", "loop2"}
    /\ ~SearchMatch
    /\ steps <= SearchFuel
    /\ sT' = Add(sT, Hour24)
    /\ steps' = steps + 1
    /\ UNCHANGED <<skind, sanchor, spc>>
    /\ UNCHANGED planVars
    /\ UNCHANGED parseVars
    /\ UNCHANGED daemonVars

\* the loop condition is false
LoopExit ==
    /\ spc \in {"loop", "loop2"}
    /\ SearchMatch
    /\ spc' = IF spc = "loop" THEN "found" ELSE "done"
    /\ UNCHANGED <<skind, sanchor, sT, steps>>
    /\ UNCHANGED planVars
    /\ UNCHANGED parseVars
    /\ UNCHANGED daemonVars

\* else if time.Now().After(t) { t = t.Add(time.Hour * 24); for ... }
Advance ==
    /\ spc = "found"
    /\ sT' = Add(sT, Hour24)
    /\ steps' = 0
    /\ spc' = "loop2"
    /\ UNCHANGED <<skind, sanchor>>
    /\ UNCHANGED planVars
    /\ UNCHANGED parseVars
    /\ UNCHANGED daemonVars

\* return t, NOW or return t, WAIT without advancing
ReturnFound ==
    /\ spc = "found"
    /\ spc' = "done"
    /\ UNCHANGED <<skind, sanchor, sT, steps>>
    /\ UNCHANGED planVars
    /\ UNCHANGED parseVars
    /\ UNCHANGED daemonVars

SearchNext == LoopStep \/ LoopExit \/ Advance \/ ReturnFound

SpecSearch == SearchInit /\ [][SearchNext]_vars

\* C5 (as claimed): for every ordinal 0..99 and every date the monthly
\* search, and for every weekday the weekly search, ends after a bounded
\* number of day-steps (SearchFuel steps reach every day number that
\* occurs at all).
C5_SearchEnds == steps <= SearchFuel

(***************************************************************************)
(* SpecParse: one call of Job.Parse on every job file of at most           *)
(* MaxFileLines lines drawn from LinePool, with an empty run log and with  *)
(* a run log that holds the current occurrence of the hourly line.         *)
(***************************************************************************)
MaxFileLines == 4

EveryHour30 == WithDur([G0 EXCEPT !.kind = "hour", !.tm = "m", !.mi = 30], 20, "m")

OnJune1 ==
    WithTime([G0 EXCEPT !.kind = "date", !.y = 2024, !.m = 6, !.d = 1], "hm", 8, 0, 0)

OnJune2 ==
    WithTime([G0 EXCEPT !.kind = "date", !.y = 2024, !.m = 6, !.d = 2], "hm", 8, 0, 0)

\* Lines of a job file: two schedule lines, a chained schedule line, a
\* chained line that does not parse, a command between spaces, a comment
\* line, an empty line and the single word `and`.
LinePool ==
    { LineOf(EveryHour30),
      LineOf(OnJune1),
      <<Tok_and>> \o LineOf(OnJune2),
      <<Tok_and, Tok_every>>,
      <<<<>>, <<>>, <<"r", "u", "n">>, <<"-", "v">>, <<>>>>,
      <<<<"#">>, <<"n", "o", "t", "e">>>>,
      <<<<>>>>,
      <<Tok_and>> }

ParseInit ==
    /\ jobFile \in LogsOver(LinePool, MaxFileLines)
    /\ runLog \in {<<>>, <<LogLine(TimeDate(2024, 6, 1, 8, 30, 0))>>}
    /\ LET r == Reading(TimeDate(2024, 6, 1, 8, 40, 0), 1, TRUE)
       IN  parseClock = <<r, r, r, r>>
    /\ parsedJob = NewJob(0)
    /\ jpc = "input"
    /\ PlanIdle
    /\ SearchIdle
    /\ DaemonIdle

Parse ==
    /\ jpc = "input"
    /\ parsedJob' = JobParse(1, jobFile, runLog, parseClock)
    /\ jpc' = "done"
    /\ UNCHANGED <<jobFile, runLog, parseClock>>
    /\ UNCHANGED planVars
    /\ UNCHANGED searchVars
    /\ UNCHANGED daemonVars

ParseNext == Parse

SpecParse == ParseInit /\ [][ParseNext]_vars

(***************************************************************************)
(* Properties of one call of Job.Parse (SpecParse).                        *)
(***************************************************************************)
\* A trimmed line that Parse keeps: not empty, not beginning with `#`.
IsKept(l) == l # <<>> /\ ~HasPrefix(l[1], <<"#">>)

\* The kept lines of a file, whitespace-trimmed, in file order.
Kept(file) == SelectSeq([i \in 1..Len(file) |-> TrimSpace(file[i])], IsKept)

\* The number of schedule lines: the first kept line and the lines
\* beginning with `and ` that directly follow it.
PlanLines(kept) ==
    IF kept = <<>> THEN 0
    ELSE CHOOSE n \in 1..Len(kept) :
            /\ \A i \in 2..n : HasAndPrefix(kept[i])
            /\ n = Len(kept) \/ ~HasAndPrefix(kept[n + 1])

\* A schedule line without its `and ` prefix.
StripAnd(l) == IF HasAndPrefix(l) THEN Tail(l) ELSE l

Parsed == jpc = "done" /\ parsedJob.err = "" /\ ~parsedJob.hang

\* C14: Job.Parse is a two-state machine over the kept lines: the first
\* line and the `and ` lines directly after it become plans, the first
\* other line becomes the command, every later line (also one beginning
\* with `and `) becomes exactly one argument, trimmed and in file order;
\* the state never goes back from ParsingArgs to ParsingPlan.
C14_TwoStateMachine ==
    Parsed
        => /\ Len(parsedJob.Plans) = PlanLines(Kept(jobFile))
           /\ parsedJob.Cmd =
                 (IF PlanLines(Kept(jobFile)) < Len(Kept(jobFile))
                  THEN Kept(jobFile)[PlanLines(Kept(jobFile)) + 1]
                  ELSE <<>>)
           /\ parsedJob.Args =
                 SubSeq(Kept(jobFile), PlanLines(Kept(jobFile)) + 2, Len(Kept(jobFile)))

\* Two plans, the command `run -v` without the spaces around it, and one
\* argument that begins with `and `.
C14_Witness ==
    /\ Parsed
    /\ Len(parsedJob.Plans) = 2
    /\ parsedJob.Cmd = <<<<"r", "u", "n">>, <<"-", "v">>>>
    /\ Len(parsedJob.Args) = 1
    /\ HasAndPrefix(parsedJob.Args[1])

\* C15: a job file with n schedule lines that all parse gives exactly n
\* plans in file order, and each plan is what its own line gives with the
\* current instant and the run log of the job, whatever the other lines.
C15_OnePlanPerLine ==
    Parsed
        => /\ Len(parsedJob.Plans) = PlanLines(Kept(jobFile))
           /\ \A k \in 1..Len(parsedJob.Plans) :
                 parsedJob.Plans[k]
                     = parsePlan(StripAnd(Kept(jobFile)[k]), LoadLog(runLog), parseClock)

\* Three schedule lines: the plan of the hourly line is NOW and the plans
\* of the two chained lines for June 2 are WAIT.
C15_Witness ==
    /\ Parsed
    /\ Len(parsedJob.Plans) = 3
    /\ parsedJob.Plans[1].state = NOW
    /\ parsedJob.Plans[2].state = WAIT
    /\ parsedJob.Plans[3].state = WAIT

(***************************************************************************)
(* Spec: the daemon.  main calls checkJobs in a loop; a pass of checkJobs  *)
(* parses every job file with its run log, runs the jobs of the NOW plans  *)
(* and then waits in a select: for the timer of the nearest WAIT plan, or  *)
(* for a wake event (SIGUSR1, or a change in the job directory, which a    *)
(* write to a run log of that directory is too).  A restart of the daemon  *)
(* is a new scan as well: the daemon keeps nothing but the files.          *)
(*                                                                         *)
(* The clock is read strictly inside a second (frac = 1), and a pass reads *)
(* one instant throughout.  The job files do not change.                   *)
(***************************************************************************)
MaxSkip == 3

MaxLaunches == 3

HourAt30 == WithDur([G0 EXCEPT !.kind = "hour", !.tm = "m", !.mi = 30], 20, "m")

HourAt5030 == [G0 EXCEPT !.kind = "hour", !.tm = "ms", !.mi = 50, !.s = 30]

OnceAt8 ==
    WithDur(WithTime([G0 EXCEPT !.kind = "date", !.y = 2024, !.yw = 4, !.m = 1, !.d = 1],
                     "hm", 8, 0, 0), 2, "h")

MonthOn1st == WithDur(WithTime([G0 EXCEPT !.kind = "month", !.d = 1], "hm", 9, 0, 0), 960, "h")

MonthOn0th == [G0 EXCEPT !.kind = "month", !.d = 0]

HourAt40 == WithDur([G0 EXCEPT !.kind = "hour", !.tm = "m", !.mi = 40], 20, "m")

\* The line `every`: no cadence, "invalid time spec".
EveryOnly == [G0 EXCEPT !.raw = <<Tok_every>>]

OnceIn9999 ==
    WithTime([G0 EXCEPT !.kind = "date", !.y = 9999, !.yw = 4, !.m = 6, !.d = 1],
             "hm", 8, 0, 0)

\* `2024-01-01 08:00`, without a duration.
OnceAt8Sharp ==
    WithTime([G0 EXCEPT !.kind = "date", !.y = 2024, !.yw = 4, !.m = 1, !.d = 1],
             "hm", 8, 0, 0)

CmdLines == << <<<<"r", "u", "n">>, <<"-", "v">>>>, <<<<"x">>>> >>

\* The environments: the job files (each job the descriptions of its
\* schedule lines and its command lines), the instant `start`, the grid
\* `step` on which the daemon starts and wake events arrive, and the last
\* instant `end`.
Scenarios ==
    << [jobs |-> << [plans |-> <<HourAt30>>, cmd |-> CmdLines] >>,
        start |-> TimeDate(2024, 1, 1, 10, 0, 0), step |-> 600,
        end |-> TimeDate(2024, 1, 1, 12, 0, 0)],
       [jobs |-> << [plans |-> <<HourAt30, HourAt5030>>, cmd |-> CmdLines] >>,
        start |-> TimeDate(2024, 1, 1, 10, 20, 0), step |-> 600,
        end |-> TimeDate(2024, 1, 1, 11, 0, 0)],
       [jobs |-> << [plans |-> <<OnceAt8>>, cmd |-> CmdLines] >>,
        start |-> TimeDate(2024, 1, 1, 7, 0, 0), step |-> 1800,
        end |-> TimeDate(2024, 1, 1, 11, 0, 0)],
       [jobs |-> << [plans |-> <<MonthOn1st>>, cmd |-> CmdLines] >>,
        start |-> TimeDate(2024, 1, 31, 9, 0, 0), step |-> SecondsPerDay,
        end |-> TimeDate(2024, 3, 5, 9, 0, 0)],
       [jobs |-> << [plans |-> <<HourAt5030>>, cmd |-> CmdLines],
                    [plans |-> <<HourAt30>>, cmd |-> CmdLines] >>,
        start |-> TimeDate(2024, 1, 1, 10, 20, 0), step |-> 600,
        end |-> TimeDate(2024, 1, 1, 11, 0, 0)],
       [jobs |-> << [plans |-> <<HourAt30>>, cmd |-> CmdLines],
                    [plans |-> <<MonthOn0th>>, cmd |-> CmdLines] >>,
        start |-> TimeDate(2024, 1, 1, 10, 20, 0), step |-> 600,
        end |-> TimeDate(2024, 1, 1, 11, 0, 0)],
       [jobs |-> << [plans |-> <<HourAt30, EveryOnly>>, cmd |-> CmdLines],
                    [plans |-> <<HourAt5030>>, cmd |-> CmdLines] >>,
        start |-> TimeDate(2024, 1, 1, 10, 20, 0), step |-> 600,
        end |-> TimeDate(2024, 1, 1, 11, 0, 0)],
       [jobs |-> << [plans |-> <<HourAt30, HourAt40>>, cmd |-> CmdLines] >>,
        start |-> TimeDate(2024, 1, 1, 10, 20, 0), step |-> 600,
        end |-> TimeDate(2024, 1, 1, 11, 0, 0)],
       [jobs |-> << [plans |-> <<OnceIn9999>>, cmd |-> CmdLines] >>,
        start |-> TimeDate(2024, 1, 1, 10, 20, 0), step |-> 600,
        end |-> TimeDate(2024, 1, 1, 11, 0, 0)],
       [jobs |-> << [plans |-> <<HourAt30>>, cmd |-> <<>>] >>,
        start |-> TimeDate(2024, 1, 1, 10, 20, 0), step |-> 600,
        end |-> TimeDate(2024, 1, 1, 11, 0, 0)],
       [jobs |-> << [plans |-> <<OnceAt8Sharp>>, cmd |-> CmdLines],
                    [plans |-> <<OnceAt8Sharp>>, cmd |-> CmdLines] >>,
        start |-> TimeDate(2024, 1, 1, 7, 0, 0), step |-> 1800,
        end |-> TimeDate(2024, 1, 1, 9, 0, 0)] >>

\* The job file of a job: a comment line, the schedule lines (`and` before
\* all but the first), an empty line, the command and its arguments.
FileOf(job) ==
    << <<<<"#">>, <<"j", "o", "b">>>> >>
        \o [i \in 1..Len(job.plans) |->
               IF i = 1 THEN LineOf(job.plans[i]) ELSE <<Tok_and>> \o LineOf(job.plans[i])]
        \o << <<<<>>>> >>
        \o job.cmd

\* A reading of the daemon's clock in the second of t.
Tick(t) == Reading(t, 1, TRUE)

DaemonInit ==
    /\ \E id \in 1..Len(Scenarios), k \in 0..MaxSkip :
          LET sc == Scenarios[id]
          IN  /\ jobDir = [j \in 1..Len(sc.jobs) |-> FileOf(sc.jobs[j])]
              /\ logFiles = [j \in 1..Len(sc.jobs) |-> <<>>]
              /\ wall = Tick(Add(sc.start, k * sc.step))
              /\ env = [id |-> id, step |-> sc.step, end |-> sc.end]
    /\ pc = "scan"
    /\ nextJob = NoJob
    /\ nextPlan = NoPlan
    /\ launches = <<>>
    /\ PlanIdle
    /\ SearchIdle
    /\ ParseIdle

\* One call of checkJobs up to its select (or its return, when there is no
\* WAIT plan: main then waits in its own select).
CheckJobs ==
    /\ pc = "scan"
    /\ Len(launches) < MaxLaunches
    /\ LET r == checkJobs(jobDir, logFiles, <<wall, wall, wall, wall>>)
       IN  IF r.hang
           THEN /\ pc' = "hung"
                /\ UNCHANGED <<logFiles, launches, nextJob, nextPlan>>
           ELSE /\ \E w \in BOOLEAN, x \in BOOLEAN :
                      LET ran == RunAll(r.nowJobs, wall, w, x, logFiles, launches)
                      IN  /\ logFiles' = ran.logs
                          /\ launches' = ran.ls
                /\ nextJob' = r.nextJob
                /\ nextPlan' = r.nextPlan
                /\ pc' = IF r.nextJob # NoJob THEN "wait" ELSE "idle"
    /\ UNCHANGED <<jobDir, wall, env>>
    /\ UNCHANGED planVars
    /\ UNCHANGED searchVars
    /\ UNCHANGED parseVars

\* case <-time.After(nextPlan.Time.Sub(time.Now())): nextJob.Run(); return true
TimerFire ==
    /\ pc = "wait"
    /\ Len(launches) < MaxLaunches
    /\ Leq(nextPlan.time, env.end)
    /\ LET due == Tick(nextPlan.time)
           now == IF After(wall, due) THEN wall ELSE due
       IN  /\ wall' = now
           /\ \E w \in BOOLEAN, x \in BOOLEAN :
                 LET ran == Run(nextJob, now, w, x, logFiles, launches)
                 IN  /\ logFiles' = ran.logs
                     /\ launches' = ran.ls
    /\ pc' = "scan"
    /\ UNCHANGED <<jobDir, nextJob, nextPlan, env>>
    /\ UNCHANGED planVars
    /\ UNCHANGED searchVars
    /\ UNCHANGED parseVars

\* A wake event after which the waited-for job is run before the scan.
Wake_runsJob ==
    /\ pc \in {"wait", "idle"}
    /\ Len(launches) < MaxLaunches
    /\ \E k \in 0..MaxSkip :
          LET now == Add(wall, k * env.step)
          IN  /\ Leq(now, env.end)
              /\ pc = "wait" => (k = 0 \/ Leq(now, Tick(nextPlan.time)))
              /\ wall' = now
              /\ LET ran == IF pc = "wait"
                            THEN Run(nextJob, now, TRUE, TRUE, logFiles, launches)
                            ELSE [logs |-> logFiles, ls |-> launches]
                 IN  /\ logFiles' = ran.logs
                     /\ launches' = ran.ls
    /\ pc' = "scan"
    /\ UNCHANGED <<jobDir, nextJob, nextPlan, env>>
    /\ UNCHANGED planVars
    /\ UNCHANGED searchVars
    /\ UNCHANGED parseVars

\* case <-signals: / case <-watcher.Events: in the select of checkJobs or of
\* main, or a restart of the daemon; k steps of the grid later, and not
\* after the timer is due.
Wake ==
    /\ pc \in {"wait", "idle"}
    /\ \E k \in 0..MaxSkip :
          LET now == Add(wall, k * env.step)
          IN  /\ Leq(now, env.end)
              /\ pc = "wait" => (k = 0 \/ Leq(now, Tick(nextPlan.time)))
              /\ wall' = now
    /\ pc' = "scan"
    /\ UNCHANGED <<jobDir, logFiles, nextJob, nextPlan, launches, env>>
    /\ UNCHANGED planVars
    /\ UNCHANGED searchVars
    /\ UNCHANGED parseVars

Next == CheckJobs \/ TimerFire \/ Wake

Spec == DaemonInit /\ [][Next]_vars

(***************************************************************************)
(* Properties of the daemon (Spec).                                        *)
(***************************************************************************)
\* The descriptions the schedule lines of job j were written from.
PlansOfJob(j) == Scenarios[env.id].jobs[j].plans

\* The launches of job j that started its subprocess.
Started(j) == {i \in 1..Len(launches) : launches[i].job = j /\ launches[i].started}

\* Two subprocesses of job j were started inside the closed window [t, t + w].
TwiceIn(j, t, w) ==
    \E a \in Started(j), b \in Started(j) :
       /\ a < b
       /\ InWindow(launches[a].at, t, w)
       /\ InWindow(launches[b].at, t, w)

\* C1 (as claimed): across timer expiries, wake events and restarts, the
\* job of a repeating plan is started at most once within one activation
\* window [t, t + clamped duration] of that plan.
C1_OncePerWindow ==
    \A j \in 1..Len(jobDir) : \A k \in 1..Len(PlansOfJob(j)) :
       LET g == PlansOfJob(j)[k]
       IN  g.kind \in RepeatKinds
              => \A o \in Occurrences(g) : ~TwiceIn(j, o, Window(g))

\* The timestamp a non-repeating description names.
GivenStart(g) == TimeDate(GivenYear(g), g.m, g.d, g.h, g.mi, g.s)

\* C4 (as claimed): once the job of a non-repeating plan was launched and
\* logged inside the window [timestamp, timestamp + duration], no later
\* pass inside that window launches it again.
C4_NonRepeatOncePerWindow ==
    \A j \in 1..Len(jobDir) : \A k \in 1..Len(PlansOfJob(j)) :
       LET g == PlansOfJob(j)[k]
       IN  g.kind = "date" => ~TwiceIn(j, GivenStart(g), GivenDuration(g))

\* What the k-th schedule line of job j gives in a pass at the instant of
\* the clock, with the run log as it is before the pass.
DescPlan(j, k) ==
    parsePlan(LineOf(PlansOfJob(j)[k]), LoadLog(logFiles[j]), <<wall, wall, wall, wall>>)

\* Every schedule line of job j parses.
Parsable(j) == \A k \in 1..Len(PlansOfJob(j)) : DescPlan(j, k).err = ""

\* The schedule lines <<j, k>> of the parsable jobs that are in state st.
PlansIn(st) ==
    {jk \in UNION {{<<j, k>> : k \in 1..Len(PlansOfJob(j))} : j \in 1..Len(jobDir)} :
        Parsable(jk[1]) /\ DescPlan(jk[1], jk[2]).state = st}

\* A step that is one pass of checkJobs up to its wait.
ScanStep == pc = "scan" /\ pc' \in {"wait", "idle"}

\* The records that a step adds to the launches.
NewLaunches == {i \in 1..Len(launches') : i > Len(launches)}

\* C11 (as claimed): a timestamp is appended to the run log only after the
\* subprocess of that launch was started successfully; a launch that fails
\* to start leaves the run log unchanged.
C11_LoggedOnlyIfStarted ==
    \A i \in 1..Len(launches) : launches[i].logged => launches[i].started

\* The job directory with an empty file in the place of each job that has
\* a schedule line that does not parse.
Blanked(dir) == [j \in 1..Len(dir) |-> IF Parsable(j) THEN dir[j] ELSE <<>>]

\* C16: a job with a schedule line that fails to parse contributes nothing
\* to the pass, neither a launch nor the next plan, also not with the plans
\* parsed before the failing line, and every other job is parsed and
\* scheduled in the same pass: the pass chooses and launches what it would
\* with empty files in the place of the failing jobs.
C16_FailedJobSkipped ==
    [][ScanStep
         => LET r == checkJobs(Blanked(jobDir), logFiles, <<wall, wall, wall, wall>>)
            IN  /\ nextJob' = r.nextJob
                /\ nextPlan' = r.nextPlan
                /\ Len(launches') = Len(launches) + Len(r.nowJobs)
                /\ \A i \in NewLaunches : Parsable(launches'[i].job)]_vars

\* Job 1 has a line that does not parse after one that does, and job 2 was
\* launched.
C16_Witness ==
    /\ Len(jobDir) = 2
    /\ ~Parsable(1)
    /\ DescPlan(1, 1).err = ""
    /\ \E i \in 1..Len(launches) : launches[i].job = 2 /\ launches[i].started

\* C17: in every pass the job of each plan classified NOW is launched once
\* per such plan (k plans NOW: k calls of Job.Run), all of them before the
\* pass starts to wait.
C17_NowPlansLaunched ==
    [][ScanStep
         => \A j \in 1..Len(jobDir) :
               Cardinality({i \in NewLaunches : launches'[i].job = j})
                   = Cardinality({jk \in PlansIn(NOW) : jk[1] = j})]_vars

\* A pass has launched one job twice at one instant, and waits.
C17_Witness ==
    /\ pc = "wait"
    /\ \E a \in 1..Len(launches), b \in 1..Len(launches) :
          /\ a < b
          /\ launches[a].job = launches[b].job
          /\ launches[a].at = launches[b].at
          /\ launches[a].started
          /\ launches[b].started

\* C18 (as claimed): a pass in which some plan of a parsed job is WAIT
\* waits for the plan with the least timestamp among the WAIT plans of all
\* jobs; when the wait elapses it launches the job of that plan once and a
\* new scan follows, and the timer launches no other job.
C18_WaitsForNearest ==
    [][/\ (ScanStep /\ PlansIn(WAIT) # {})
            => /\ pc' = "wait"
               /\ \E jk \in PlansIn(WAIT) :
                     /\ nextJob'.path = jk[1]
                     /\ nextPlan'.time = DescPlan(jk[1], jk[2]).time
                     /\ \A o \in PlansIn(WAIT) :
                           Leq(nextPlan'.time, DescPlan(o[1], o[2]).time)
       /\ (pc = "wait" /\ launches' # launches)
            => /\ Len(launches') = Len(launches) + 1
               /\ launches'[Len(launches')].job = nextJob.path
               /\ pc' = "scan"]_vars

\* C19: a step that ends a wait before the waited-for instant, or a wait
\* with no plan pending, launches nothing and is followed by a new scan.
C19_WakeRescans ==
    [][(pc = "idle" \/ (pc = "wait" /\ Before(wall', nextPlan.time)))
         => /\ launches' = launches
            /\ logFiles' = logFiles
            /\ pc' = "scan"]_vars

\* A wake event has ended the wait for a plan that is not yet due: the
\* next step is a scan, and the waited-for job was not launched.
C19_Witness ==
    /\ pc = "scan"
    /\ nextJob # NoJob
    /\ Before(wall, nextPlan.time)
    /\ launches = <<>>

\* C23: a launch that fails because the run log cannot be opened or written
\* leaves no subprocess running, and a failed launch is not tried again in
\* its pass: the scan calls Job.Run for a job no more often than the job
\* has plans in state NOW, the timer calls it once.
C23_FailedLaunchNotRetried ==
    [][/\ \A i \in NewLaunches : launches'[i].started => launches'[i].logged
       /\ ScanStep
            => \A j \in 1..Len(jobDir) :
                  Cardinality({i \in NewLaunches : launches'[i].job = j})
                      <= Cardinality({jk \in PlansIn(NOW) : jk[1] = j})
       /\ pc = "wait" => Len(launches') <= Len(launches) + 1]_vars

\* A launch has failed on the run log, in a pass that has gone on to wait.
C23_Witness ==
    /\ pc = "wait"
    /\ \E i \in 1..Len(launches) : ~launches[i].logged /\ ~launches[i].started

\* The command lines of the file of job j.
CmdOfJob(j) == Scenarios[env.id].jobs[j].cmd

\* C29 (as claimed): a job whose file has schedule lines and no command is
\* never run, by the NOW path or by the timer, and gets no run-log entry.
C29_NoCommandNoLaunch ==
    /\ \A i \in 1..Len(launches) : CmdOfJob(launches[i].job) # <<>>
    /\ \A j \in 1..Len(jobDir) : CmdOfJob(j) = <<>> => logFiles[j] = <<>>

\* Job j has been started.
HasStarted(j, ls) == \E i \in 1..Len(ls) : ls[i].job = j /\ ls[i].started

\* The states of the non-repeating plans of job j at the reading now.
OnceStates(j, now) ==
    {parsePlan(LineOf(PlansOfJob(j)[k]), <<>>, <<now, now, now, now>>).state :
        k \in {n \in 1..Len(PlansOfJob(j)) : PlansOfJob(j)[n].kind = "date"}}

\* C28 (as claimed), in the form that a finite run refutes: a non-repeating
\* plan that is WAIT while the daemon waits is not taken by one step to
\* EXPIRED with its job never started, while all launches succeed.  A plan
\* that is EXPIRED is never launched afterwards.
C28_WaitingOnceRuns ==
    [][\A j \in 1..Len(jobDir) :
          (/\ pc = "wait"
           /\ Parsable(j)
           /\ WAIT \in OnceStates(j, wall)
           /\ \A i \in 1..Len(launches') : launches'[i].started)
             => (EXPIRED \in OnceStates(j, wall') => HasStarted(j, launches'))]_vars

====
